---- MODULE Spec2Model ----
(***************************************************************************)
(* A model of GtkExpression (gtk/gtkexpression.c): expression nodes        *)
(* (constant, object, property, closure), their evaluation, and the watch  *)
(* machinery built on GObject weak references and "notify" signal          *)
(* handlers.                                                                *)
(*                                                                         *)
(* Everything runs on one thread and every callback is synchronous, so an  *)
(* action is one call made by the application (or one GObject event) with  *)
(* every callback it triggers.  The handlers are operators that take a     *)
(* state record S and return the state record they leave behind.           *)
(***************************************************************************)
EXTENDS Integers, Sequences, FiniteSets, TLC

(***************************************************************************)
(* Bounds of the model.                                                    *)
(***************************************************************************)
NumFoo     == 2   \* objects of type Foo (properties "width" and "next")
MaxVal     == 1   \* integer property values are 0..MaxVal
MaxWatches == 2   \* GtkExpressionWatch structures ever allocated
MaxParams  == 2   \* parameters of a generated closure expression

(***************************************************************************)
(* The host object model (GObject), as far as the expressions use it.      *)
(***************************************************************************)
NULL == 0

FooObjects == 1..NumFoo
BarObject  == NumFoo + 1          \* one object of a type without properties
Objects    == FooObjects \cup {BarObject}
This       == Objects \cup {NULL}

TypeOf(o) == IF o \in FooObjects THEN "Foo" ELSE "Bar"

PropNames == {"width", "next"}
\* pspec->owner_type and pspec->value_type of the two properties of Foo
OwnerType(pspec) == "Foo"
PropType(pspec)  == IF pspec = "width" THEN "int" ELSE "object"

\* G_TYPE_CHECK_INSTANCE_TYPE (object, type)
TypeCheckInstance(o, type) == TypeOf(o) = type

\* GValue: a type tag and the payload; G_VALUE_INIT is the empty value.
IntValue(n)    == [type |-> "int", v |-> n]
ObjectValue(o) == [type |-> "object", v |-> o]
Empty          == [type |-> "invalid", v |-> 0]

IntValues == {IntValue(n) : n \in 0..MaxVal}
PropValues(pspec) ==
    IF pspec = "width" THEN IntValues ELSE {ObjectValue(o) : o \in This}

(***************************************************************************)
(* Expression nodes.  A node is immutable after construction except for    *)
(* the object pointer and the watch list of an object expression, which    *)
(* live in the variables object and watches, indexed by the node.          *)
(***************************************************************************)
ObjNodes == Objects     \* object expression n was created for object n

NoExpr == [kind |-> "none"]
gtk_constant_expression_new(value) == [kind |-> "constant", value |-> value]
gtk_object_expression_new(n)       == [kind |-> "object", node |-> n]
gtk_property_expression_new(expression, property_name) ==
    [kind |-> "property", expr |-> expression, pspec |-> property_name]
gtk_closure_expression_new(value_type, closure, params) ==
    [kind |-> "closure", value_type |-> value_type, closure |-> closure,
     params |-> params]

\* The object expressions that occur in an expression.
RECURSIVE ExprNodes(_)
ExprNodes(e) ==
    CASE e.kind = "object" -> {e.node}
      [] e.kind = "property" -> ExprNodes(e.expr)
      [] e.kind = "closure" ->
             UNION {ExprNodes(e.params[i]) : i \in 1..Len(e.params)}
      [] OTHER -> {}

VARIABLES
    alive,      \* alive[o]: object o has not been finalized
    props,      \* props[o][p]: value of property p of Foo object o
    weak_refs,  \* weak_refs[o]: the g_object_weak_ref entries of o, in array order
    handlers,   \* handlers[o]: the "notify::p" handlers connected to o, in order
    oexpr,      \* oexpr[n]: the memory of GtkObjectExpression n
    erefs,      \* erefs[n]: the references that keep GtkObjectExpression n alive
    object,     \* object[n]: GtkObjectExpression.object of node n
    watches,    \* watches[n]: GtkObjectExpression.watches of node n (a GSList)
    watch,      \* watch[w]: the GtkExpressionWatch structures
    bind,       \* bind[w]: the GtkExpressionBind created with watch w, if any
    binds,      \* binds[o]: the "gtk-expression-binds" list attached to object o
    acct,       \* acct[w]: what watch w acquired and released so far (history)
    fired,      \* fired[w]: calls of watch w's notify during the last action
    last,       \* what the last action did (history, read by no handler)
    lastEval    \* the last gtk_expression_evaluate call of the application

vars == <<alive, props, weak_refs, handlers, oexpr, erefs, object, watches, watch, bind,
          binds, acct, fired, last, lastEval>>

(***************************************************************************)
(* Evaluation.                                                             *)
(***************************************************************************)
RECURSIVE gtk_expression_evaluate(_, _, _)
RECURSIVE gtk_closure_expression_params(_, _, _, _, _)
RECURSIVE gtk_expression_is_static(_)

EvalFail       == [ok |-> FALSE, value |-> Empty]
EvalOk(value)  == [ok |-> TRUE, value |-> value]

gtk_constant_expression_is_static(expr) == TRUE

\* Variant: the constant is handed out only when there is a `this`.
gtk_constant_expression_evaluate_needs_this(S, expr, this) ==
    IF this = NULL THEN EvalFail ELSE EvalOk(expr.value)

gtk_constant_expression_evaluate(S, expr, this) == EvalOk(expr.value)

\* Variant: an object expression that claims to be static.
gtk_object_expression_is_static_always(expr) == TRUE

gtk_object_expression_is_static(expr) == FALSE

gtk_object_expression_evaluate(S, expr, this) ==
    IF S.object[expr.node] = NULL
    THEN EvalFail
    ELSE EvalOk(ObjectValue(S.object[expr.node]))

\* Variant: a property expression is static when it has a static child.
gtk_property_expression_is_static_by_child(expr) ==
    expr.expr.kind = "constant"

gtk_property_expression_is_static(expr) == FALSE

\* Variant: the object is not checked against the owner type of the property.
gtk_property_expression_get_object_unchecked(S, self, this) ==
    IF self.expr.kind = "none"
    THEN this
    ELSE LET r == gtk_expression_evaluate(S, self.expr, this)
         IN  IF ~r.ok THEN NULL
             ELSE IF r.value.type # "object" THEN NULL
             ELSE r.value.v

\* The source object of a property expression, NULL if there is none.
gtk_property_expression_get_object(S, self, this) ==
    IF self.expr.kind = "none"
    THEN this
    ELSE LET r == gtk_expression_evaluate(S, self.expr, this)
         IN  IF ~r.ok THEN NULL
             ELSE IF r.value.type # "object" THEN NULL
             ELSE IF r.value.v = NULL THEN NULL
             ELSE IF ~TypeCheckInstance(r.value.v, OwnerType(self.pspec)) THEN NULL
             ELSE r.value.v

\* Variant: the value the property had when the object was constructed.
g_object_get_property_initial(S, obj, name) ==
    IF TypeOf(obj) # OwnerType(name) THEN Empty
    ELSE IF name = "width" THEN IntValue(0) ELSE ObjectValue(NULL)

\* g_object_get_property (object, name, value) on an empty value: the value is
\* initialised and set if the object's class has the property; otherwise GObject
\* warns and returns with the value untouched.
g_object_get_property(S, obj, name) ==
    IF TypeOf(obj) = OwnerType(name) THEN S.props[obj][name] ELSE Empty

gtk_property_expression_evaluate(S, self, this) ==
    LET obj == gtk_property_expression_get_object(S, self, this)
    IN  IF obj = NULL
        THEN EvalFail
        ELSE EvalOk(g_object_get_property(S, obj, self.pspec))

\* The references that gtk_property_expression_get_object takes and has not
\* released when it returns: g_object_ref (this) without a child; with one,
\* g_value_dup_object of the child's value, released again when the type
\* check fails.
gtk_property_expression_get_object_refs(S, self, this) ==
    IF self.expr.kind = "none"
    THEN IF this # NULL THEN 1 ELSE 0
    ELSE LET r == gtk_expression_evaluate(S, self.expr, this)
         IN  IF ~r.ok THEN 0
             ELSE IF r.value.type # "object" THEN 0
             ELSE IF r.value.v = NULL THEN 0
             ELSE IF ~TypeCheckInstance(r.value.v, OwnerType(self.pspec)) THEN 1 - 1
             ELSE 1

\* The references to the source object left when
\* gtk_property_expression_evaluate returns: those of get_object, less the
\* g_object_unref after g_object_get_property.
gtk_property_expression_evaluate_refs(S, self, this) ==
    IF gtk_property_expression_get_object(S, self, this) = NULL
    THEN gtk_property_expression_get_object_refs(S, self, this)
    ELSE gtk_property_expression_get_object_refs(S, self, this) - 1

\* The callable of a closure expression: any function of its arguments (the
\* instance and the parameter values).  "sum" adds up the payloads, "first"
\* returns the instance.
SeqSum(s) ==
    LET RECURSIVE Sum(_)
        Sum(i) == IF i > Len(s) THEN 0 ELSE s[i].v + Sum(i + 1)
    IN  Sum(1)
g_closure_invoke(closure, instance_and_params) ==
    IF closure = "first"
    THEN ObjectValue(instance_and_params[1].v)
    ELSE IntValue(SeqSum(instance_and_params) % (MaxVal + 1))

\* The parameter loop: param is the 1-based index of the next parameter and
\* arr the instance_and_params array (arr[1] is the instance).
gtk_closure_expression_params(S, self, this, param, arr) ==
    IF param > Len(self.params)
    THEN [failed |-> FALSE, evaluated |-> param - 1, arr |-> arr]
    ELSE LET r == gtk_expression_evaluate(S, self.params[param], this)
         IN  IF ~r.ok
             THEN [failed |-> TRUE, evaluated |-> param,
                   arr |-> [arr EXCEPT ![param + 1] = r.value]]
             ELSE gtk_closure_expression_params(S, self, this, param + 1,
                      [arr EXCEPT ![param + 1] = r.value])

\* Variant: a failure path that returns without the "out:" loop.
gtk_closure_expression_unset_skipped(arr, unset_to) == arr

\* The "out:" loop: g_value_unset of the slots 1..unset_to.
gtk_closure_expression_unset(arr, unset_to) ==
    [i \in 1..Len(arr) |-> IF i <= unset_to THEN Empty ELSE arr[i]]

LiveValues(arr) == Cardinality({i \in 1..Len(arr) : arr[i] # Empty})

\* One run of gtk_closure_expression_evaluate with what it did: the number of
\* parameters it evaluated, whether it invoked the callable, and the number of
\* parameter values still initialised when it returns.
gtk_closure_expression_run(S, self, this) ==
    LET n      == Len(self.params)
        zeroed == [i \in 1..(n + 1) |-> Empty]
        loop   == gtk_closure_expression_params(S, self, this, 1, zeroed)
        args   == [loop.arr EXCEPT ![1] = ObjectValue(this)]
        final  == IF loop.failed THEN loop.arr ELSE args
    IN  [result    |-> ~loop.failed,
         value     |-> IF loop.failed THEN Empty
                       ELSE g_closure_invoke(self.closure, args),
         evaluated |-> loop.evaluated,
         invoked   |-> ~loop.failed,
         live      |-> LiveValues(gtk_closure_expression_unset(final, n + 1))]

gtk_closure_expression_evaluate(S, self, this) ==
    LET run == gtk_closure_expression_run(S, self, this)
    IN  [ok |-> run.result, value |-> run.value]

gtk_closure_expression_is_static(self) ==
    \A i \in 1..Len(self.params) : gtk_expression_is_static(self.params[i])

gtk_expression_is_static(self) ==
    CASE self.kind = "constant" -> gtk_constant_expression_is_static(self)
      [] self.kind = "object"   -> gtk_object_expression_is_static(self)
      [] self.kind = "property" -> gtk_property_expression_is_static(self)
      [] self.kind = "closure"  -> gtk_closure_expression_is_static(self)

gtk_expression_evaluate(S, self, this) ==
    CASE self.kind = "constant" -> gtk_constant_expression_evaluate(S, self, this)
      [] self.kind = "object"   -> gtk_object_expression_evaluate(S, self, this)
      [] self.kind = "property" -> gtk_property_expression_evaluate(S, self, this)
      [] self.kind = "closure"  -> gtk_closure_expression_evaluate(S, self, this)

\* self->value_type, fixed at construction
gtk_expression_get_value_type(self) ==
    CASE self.kind = "constant" -> self.value.type
      [] self.kind = "object"   -> "object"
      [] self.kind = "property" -> PropType(self.pspec)
      [] self.kind = "closure"  -> self.value_type

(***************************************************************************)
(* Watches.  A GtkExpressionWatch is one allocation: the header followed   *)
(* by the sub-watch slots of the nodes.  A pointer into it is the pair of  *)
(* the watch and the byte offset from its start; offset 0 is the watch     *)
(* itself.  Sizes are those of an LP64 build.                              *)
(***************************************************************************)
SizeofExpressionWatch         == 40   \* five pointers, then sub[0]
SizeofObjectExpressionWatch   == 16   \* notify, user_data
SizeofPropertyExpressionWatch == 40   \* notify, user_data, expr, this, closure
SizeofClosureExpressionWatch  == 16   \* notify, user_data

Watches == 1..MaxWatches

NoSub == [off \in {} |-> NoExpr]
\* memory that is not a live GtkExpressionWatch: not yet allocated, or freed
NoWatch(mem) == [mem |-> mem, ref_count |-> 0, expression |-> NoExpr,
                 this |-> NULL, user_destroy |-> "NULL", notify |-> "NULL",
                 user_data |-> NULL, sub |-> NoSub]

\* memory that is not a live GtkExpressionBind
NoBind(mem) == [mem |-> mem, watch |-> NULL, target |-> NULL, pspec |-> "NULL"]

\* The history of a watch: the `this` it was created with (kept while it is
\* watching), whether it was given a user_destroy, the references it took and
\* released on its expression, the calls of its user_destroy, and the releases
\* of the reference the watch holds on itself; held counts the references the
\* application took with gtk_expression_watch_ref and has not released; slots
\* is the sequence of sub-watch slots that gtk_expression_watch initialised
\* (kept while it is watching).
NoAcct == [this |-> NULL, given |-> FALSE, expression_ref |-> 0, expression_unref |-> 0,
           user_destroy |-> 0, watch_unref |-> 0, held |-> 0, slots |-> <<>>]

gtk_expression_watch_is_watching(wt) == wt.expression.kind # "none"

Ptr(w, off) == [watch |-> w, off |-> off]

RECURSIVE gtk_expression_watch_size(_)
RECURSIVE gtk_closure_expression_watch_size_loop(_, _)
RECURSIVE gtk_expression_subwatch_init(_, _, _, _, _, _)
RECURSIVE gtk_closure_expression_watch_loop(_, _, _, _, _, _)
RECURSIVE gtk_closure_expression_watch_loop_packed(_, _, _, _, _, _)
RECURSIVE gtk_expression_subwatch_finish(_, _, _)
RECURSIVE gtk_closure_expression_unwatch_loop(_, _, _, _, _)
RECURSIVE InvokeNotify(_, _, _)
RECURSIVE gtk_expression_watch_unwatch(_, _)
RECURSIVE g_object_set_property(_, _, _, _)

gtk_expression_watch_size_static(self) == 0

gtk_object_expression_watch_size(self) == SizeofObjectExpressionWatch

gtk_property_expression_watch_size(self) ==
    SizeofPropertyExpressionWatch
    + (IF self.expr.kind # "none" THEN gtk_expression_watch_size(self.expr) ELSE 0)

gtk_closure_expression_watch_size_loop(self, i) ==
    IF i > Len(self.params) THEN 0
    ELSE (IF gtk_expression_is_static(self.params[i]) THEN 0
          ELSE gtk_expression_watch_size(self.params[i]))
         + gtk_closure_expression_watch_size_loop(self, i + 1)

gtk_closure_expression_watch_size(self) ==
    SizeofClosureExpressionWatch + gtk_closure_expression_watch_size_loop(self, 1)

gtk_expression_watch_size(self) ==
    CASE self.kind = "constant" -> gtk_expression_watch_size_static(self)
      [] self.kind = "object"   -> gtk_object_expression_watch_size(self)
      [] self.kind = "property" -> gtk_property_expression_watch_size(self)
      [] self.kind = "closure"  -> gtk_closure_expression_watch_size(self)

\* sizeof of the structure a slot holds
SlotSize(kind) ==
    CASE kind = "owatch" -> SizeofObjectExpressionWatch
      [] kind = "pwatch" -> SizeofPropertyExpressionWatch
      [] kind = "cwatch" -> SizeofClosureExpressionWatch

\* An access to size bytes at offset off of a watch; touched is the end of the
\* highest byte of the sub area accessed during the action.
Touch(S, off, size) ==
    [S EXCEPT !.touched = IF off + size - SizeofExpressionWatch > @
                          THEN off + size - SizeofExpressionWatch ELSE @]

\* A call of the watch or unwatch function of expression node self for the
\* slot sw; visits records the calls of the action in order.
Visit(S, op, sw, self) ==
    [S EXCEPT !.visits = Append(@, [op |-> op, w |-> sw.watch, off |-> sw.off,
                                    expr |-> self])]

\* Writing the slot at offset off of watch w.
SetSlot(S, w, off, slot) ==
    [Touch(S, off, SlotSize(slot.kind)) EXCEPT !.watch[w].sub = (off :> slot) @@ @]

\* An entry of the per-action trace.
Trace(S, ev, w) ==
    [S EXCEPT !.trace = Append(@, [ev |-> ev, w |-> w, this |-> S.watch[w].this])]

\* GSList and GObject array helpers
SeqRemoveAt(s, i) == [j \in 1..(Len(s) - 1) |-> IF j < i THEN s[j] ELSE s[j + 1]]
IndexOf(s, x) ==
    IF \E i \in 1..Len(s) : s[i] = x
    THEN CHOOSE i \in 1..Len(s) : s[i] = x /\ \A j \in 1..(i - 1) : s[j] # x
    ELSE 0
InSeq(s, x) == \E i \in 1..Len(s) : s[i] = x
g_slist_prepend(list, data) == <<data>> \o list
g_slist_remove(list, data) ==
    IF IndexOf(list, data) = 0 THEN list ELSE SeqRemoveAt(list, IndexOf(list, data))

\* g_object_weak_ref: the entry is added at the end of the object's array.
g_object_weak_ref(S, obj, notify, data) ==
    [S EXCEPT !.weak_refs[obj] = Append(@, [notify |-> notify, data |-> data])]

\* g_object_weak_unref: the first matching entry is overwritten by the last
\* entry of the array; without a match GObject warns and changes nothing.
g_object_weak_unref(S, obj, notify, data) ==
    LET arr == S.weak_refs[obj]
        i   == IndexOf(arr, [notify |-> notify, data |-> data])
        n   == Len(arr)
    IN  IF i = 0 THEN S
        ELSE [S EXCEPT !.weak_refs[obj] =
                 [j \in 1..(n - 1) |-> IF j = i THEN arr[n] ELSE arr[j]]]

\* g_assert (cond) in the function `where`; asserts keeps the functions whose
\* assertion failed in the action.
g_assert(S, cond, where) ==
    IF cond THEN S ELSE [S EXCEPT !.asserts = @ \cup {where}]

\* A read of the GtkExpressionWatch w through a pointer to it; wuaf keeps the
\* watches that were read when their memory had been freed.  What is read
\* then is undefined: with ub = "intact" the memory still is as the watch left
\* it (not watching), with ub = "crash" the process ends there.
WatchAccess(S, w) ==
    IF S.watch[w].mem # "freed" THEN S
    ELSE [S EXCEPT !.wuaf = @ \cup {w},
                   !.crashed = @ \/ S.ub = "crash"]

\* A read or write of the GtkExpressionBind b through a pointer to it; buaf
\* keeps the binds that were accessed when their memory was not live.
BindAccess(S, b) ==
    IF S.bind[b].mem = "live" THEN S ELSE [S EXCEPT !.buaf = @ \cup {b}]

\* g_slice_free (GtkExpressionBind, bind) by the function `by`; bfrees records
\* the frees of the action with the watch pointer the record held.
BindSliceFree(S, b, by) ==
    [BindAccess(S, b) EXCEPT !.bind[b] = NoBind("freed"),
                             !.bfrees = Append(@, [bind |-> b, by |-> by,
                                                   watch |-> S.bind[b].watch])]

\* What the functions read and write of the program, without the histories.
Heap(S) ==
    [alive |-> S.alive, props |-> S.props, weak_refs |-> S.weak_refs,
     handlers |-> [o \in Objects |->
                     [i \in 1..Len(S.handlers[o]) |->
                         [watch |-> S.handlers[o][i].watch,
                          off |-> S.handlers[o][i].off,
                          detail |-> S.handlers[o][i].detail]]],
     oexpr |-> S.oexpr, erefs |-> S.erefs, object |-> S.object,
     watches |-> S.watches, watch |-> S.watch, bind |-> S.bind,
     binds |-> S.binds]

\* The call of gtk_expression_bind_notify for bind b in state S; stack keeps
\* the calls that have not returned.  A call that finds itself on the stack
\* runs in the state in which an unfinished call of the same function with
\* the same argument began: what follows repeats what led here, without end.
Frame(S, b) == [bind |-> b, heap |-> Heap(S)]

\* An evaluation that the watch machinery starts on its own; evals keeps, for
\* each, who started it, the `this` it passes and whether that object is
\* absent or has not begun its destruction.
EngineEvaluate(S, by, w, this) ==
    [S EXCEPT !.evals = @ \cup {[by |-> by, w |-> w, this |-> this,
                                 live |-> this = NULL \/ S.alive[this]]}]

gtk_expression_watch_evaluate(S, w) ==
    IF ~gtk_expression_watch_is_watching(S.watch[w])
    THEN EvalFail
    ELSE gtk_expression_evaluate(S, S.watch[w].expression, S.watch[w].this)

\* g_object_set_property by a bind; bwrites records the writes of the action,
\* each with whether the target was still alive (not being disposed).
gtk_expression_bind_write(S, b, value) ==
    g_object_set_property(
        [Trace(S, "write", b) EXCEPT
           !.bwrites = Append(@, [bind |-> b, target |-> S.bind[b].target,
                                  pspec |-> S.bind[b].pspec,
                                  value |-> value,
                                  alive |-> S.alive[S.bind[b].target]])],
        S.bind[b].target, S.bind[b].pspec, value)

\* Variant: the value is written whatever the evaluation returned.
gtk_expression_bind_notify_unchecked(S, b) ==
    LET Note(r, S2) ==
            [S2 EXCEPT !.bnotes = Append(@,
                [bind |-> b, target |-> S.bind[b].target,
                 pspec |-> S.bind[b].pspec, ok |-> r.ok, value |-> r.value,
                 before |-> S.props[S.bind[b].target],
                 after |-> S2.props[S.bind[b].target]])]
        Evaluated == IF gtk_expression_watch_is_watching(S.watch[S.bind[b].watch])
                     THEN EngineEvaluate(S, "gtk_expression_bind_notify",
                                         S.bind[b].watch,
                                         S.watch[S.bind[b].watch].this)
                     ELSE S
        Set(r) == Note(r, gtk_expression_bind_write(Evaluated, b, r.value))
    IN  IF S.bind[b].target = NULL
        THEN BindAccess(S, b)
        ELSE Set(gtk_expression_watch_evaluate(BindAccess(S, b), S.bind[b].watch))

\* bnotes records each call that got as far as the evaluation: what the
\* evaluation returned and the properties of the target before and after;
\* hung keeps the binds whose call repeats without end (see Frame).
gtk_expression_bind_notify(S, b) ==
    LET Note(r, S2) ==
            [S2 EXCEPT !.bnotes = Append(@,
                [bind |-> b, target |-> S.bind[b].target,
                 pspec |-> S.bind[b].pspec, ok |-> r.ok, value |-> r.value,
                 before |-> S.props[S.bind[b].target],
                 after |-> S2.props[S.bind[b].target]])]
        Evaluated == IF gtk_expression_watch_is_watching(S.watch[S.bind[b].watch])
                     THEN EngineEvaluate(S, "gtk_expression_bind_notify",
                                         S.bind[b].watch,
                                         S.watch[S.bind[b].watch].this)
                     ELSE S
        Enter(S1) == [S1 EXCEPT !.stack = Append(@, Frame(S, b))]
        Leave(S2) == [S2 EXCEPT !.stack = S.stack]
        Set(r) == Leave(Note(r, IF ~r.ok THEN Evaluated
                                ELSE gtk_expression_bind_write(Enter(Evaluated), b,
                                                               r.value)))
    IN  IF S.hung # {} THEN S
        ELSE IF S.bind[b].target = NULL
        THEN BindAccess(S, b)
        ELSE IF InSeq(S.stack, Frame(S, b))
        THEN [S EXCEPT !.hung = @ \cup {b}]
        ELSE Set(gtk_expression_watch_evaluate(BindAccess(S, b), S.bind[b].watch))

\* watch->notify (watch->user_data): the callback given to
\* gtk_expression_watch: gtk_expression_bind_notify, or the application's,
\* which only counts ("notify") or calls gtk_expression_watch_unwatch on the
\* watch it was given as user data if that is watching ("notify_unwatch").  It
\* is counted and traced; sfired keeps the watches notified while their
\* expression is static, wdiff those for which gtk_expression_watch_evaluate,
\* called from the callback, differs from gtk_expression_evaluate with the
\* `this` the watch was created with.
UserNotify(S, w) ==
    LET wt == S.watch[w]
        Call(S1) == CASE wt.notify = "gtk_expression_bind_notify" ->
                             gtk_expression_bind_notify(S1, wt.user_data)
                      [] wt.notify = "notify_unwatch" ->
                             IF gtk_expression_watch_is_watching(S1.watch[wt.user_data])
                             THEN gtk_expression_watch_unwatch(
                                      Trace(S1, "callback_unwatch", wt.user_data),
                                      wt.user_data)
                             ELSE S1
                      [] OTHER -> S1
    IN  Call([Trace(S, "notify", w) EXCEPT
                !.fired[w] = @ + 1,
                !.sfired = IF gtk_expression_watch_is_watching(wt)
                              /\ gtk_expression_is_static(wt.expression)
                           THEN @ \cup {w} ELSE @,
                !.wdiff = IF gtk_expression_watch_is_watching(wt)
                             /\ gtk_expression_watch_evaluate(S, w)
                                  # gtk_expression_evaluate(S, wt.expression,
                                                            S.acct[w].this)
                          THEN @ \cup {w} ELSE @])

gtk_expression_watch_cb(S, data) ==
    IF ~gtk_expression_watch_is_watching(S.watch[data.watch])
    THEN WatchAccess(S, data.watch)
    ELSE UserNotify(S, data.watch)

\* g_closure_invalidate + g_closure_unref of the handler closure of a property
\* sub-watch: the handler is disconnected from the object it was connected to.
gtk_property_expression_watch_destroy_closure(S, pw) ==
    LET pwatch == S.watch[pw.watch].sub[pw.off]
        obj    == pwatch.closure
        conn   == {i \in 1..Len(S.handlers[obj]) :
                      /\ S.handlers[obj][i].watch = pw.watch
                      /\ S.handlers[obj][i].off = pw.off}
    IN  IF pwatch.closure = NULL THEN Touch(S, pw.off, SlotSize("pwatch"))
        ELSE [Touch(S, pw.off, SlotSize("pwatch")) EXCEPT
                !.handlers[obj] =
                    IF conn = {} THEN @
                    ELSE SeqRemoveAt(@, CHOOSE i \in conn : TRUE),
                !.watch[pw.watch].sub[pw.off].closure = NULL]

\* g_signal_connect_closure_by_id (object, "notify", detail = property name)
gtk_property_expression_watch_create_closure(S, pw) ==
    LET pwatch == S.watch[pw.watch].sub[pw.off]
        Connect(S1, obj) ==
            IF obj = NULL THEN S1
            ELSE [S1 EXCEPT
                    !.handlers[obj] = Append(@, [watch |-> pw.watch, off |-> pw.off,
                                                 detail |-> pwatch.expr.pspec,
                                                 seq |-> S.seq]),
                    !.seq = @ + 1,
                    !.watch[pw.watch].sub[pw.off].closure = obj]
    IN  Connect(EngineEvaluate(S, "gtk_property_expression_watch_create_closure",
                               pw.watch, pwatch.this),
                gtk_property_expression_get_object(S, pwatch.expr, pwatch.this))

\* pwatch->notify (pwatch->user_data), cwatch->notify (cwatch->user_data)
SlotNotify(S, p) ==
    LET slot == S.watch[p.watch].sub[p.off]
    IN  InvokeNotify(S, slot.notify, slot.user_data)

gtk_property_expression_watch_notify_cb(S, pw) == SlotNotify(S, pw)

\* The "notify" handlers of property sub-watch pw, on any object.
Listeners(S, pw) ==
    UNION {{<<o, i>> : i \in {j \in 1..Len(S.handlers[o]) :
                                  /\ S.handlers[o][j].watch = pw.watch
                                  /\ S.handlers[o][j].off = pw.off}} :
           o \in Objects}

\* relays records, for each call of the relay, the state in which the
\* notification is passed on: the closure the sub-watch had before, the one
\* it has now, what its expression resolves to and where its handlers are.
RelayForward(S, old, data) ==
    SlotNotify(
        [S EXCEPT !.relays = Append(@,
            [pw |-> data, old |-> old,
             closure |-> S.watch[data.watch].sub[data.off].closure,
             source |-> gtk_property_expression_get_object(S,
                            S.watch[data.watch].sub[data.off].expr,
                            S.watch[data.watch].sub[data.off].this),
             listeners |-> {l[1] : l \in Listeners(S, data)},
             count |-> Cardinality(Listeners(S, data))])],
        data)

\* Variant: the old handler stays connected.
gtk_property_expression_watch_expr_notify_cb_keep(S, data) ==
    RelayForward(
        gtk_property_expression_watch_create_closure(S, data),
        S.watch[data.watch].sub[data.off].closure, data)

gtk_property_expression_watch_expr_notify_cb(S, data) ==
    RelayForward(
        gtk_property_expression_watch_create_closure(
            gtk_property_expression_watch_destroy_closure(S, data), data),
        S.watch[data.watch].sub[data.off].closure, data)

\* Variant: a closure sub-watch that does not pass the notification on.
gtk_closure_expression_watch_notify_cb_silent(S, data) == S

gtk_closure_expression_watch_notify_cb(S, data) == SlotNotify(S, data)

\* A call through a GtkExpressionNotify function pointer.
InvokeNotify(S, notify, data) ==
    CASE notify = "gtk_expression_watch_cb" ->
             gtk_expression_watch_cb(S, data)
      [] notify = "gtk_property_expression_watch_expr_notify_cb" ->
             gtk_property_expression_watch_expr_notify_cb(S, data)
      [] notify = "gtk_closure_expression_watch_notify_cb" ->
             gtk_closure_expression_watch_notify_cb(S, data)

gtk_expression_watch_static(S, self, sw, this, notify, user_data) == S

gtk_object_expression_watch(S, self, sw, this, notify, user_data) ==
    LET S1 == SetSlot(S, sw.watch, sw.off,
                      [kind |-> "owatch", notify |-> notify, user_data |-> user_data])
    IN  [S1 EXCEPT !.watches[self.node] = g_slist_prepend(@, sw)]

gtk_property_expression_watch(S, self, sw, this, notify, user_data) ==
    LET Child(S1) ==
            IF self.expr.kind # "none" /\ ~gtk_expression_is_static(self.expr)
            THEN gtk_expression_subwatch_init(S1, self.expr,
                     Ptr(sw.watch, sw.off + SizeofPropertyExpressionWatch), this,
                     "gtk_property_expression_watch_expr_notify_cb", sw)
            ELSE S1
    IN  gtk_property_expression_watch_create_closure(
            Child(SetSlot(S, sw.watch, sw.off,
                      [kind |-> "pwatch", notify |-> notify, user_data |-> user_data,
                       expr |-> self, this |-> this, closure |-> NULL])),
            sw)

\* Variant: the sub-watches of the parameters are all put at the first offset.
gtk_closure_expression_watch_loop_packed(S, self, sw, this, i, sub) ==
    IF i > Len(self.params) THEN S
    ELSE IF gtk_expression_is_static(self.params[i])
    THEN gtk_closure_expression_watch_loop_packed(S, self, sw, this, i + 1, sub)
    ELSE gtk_closure_expression_watch_loop_packed(
             gtk_expression_subwatch_init(S, self.params[i], Ptr(sw.watch, sub),
                 this, "gtk_closure_expression_watch_notify_cb", sw),
             self, sw, this, i + 1, sub)

gtk_closure_expression_watch_loop(S, self, sw, this, i, sub) ==
    IF i > Len(self.params) THEN S
    ELSE IF gtk_expression_is_static(self.params[i])
    THEN gtk_closure_expression_watch_loop(S, self, sw, this, i + 1, sub)
    ELSE gtk_closure_expression_watch_loop(
             gtk_expression_subwatch_init(S, self.params[i], Ptr(sw.watch, sub),
                 this, "gtk_closure_expression_watch_notify_cb", sw),
             self, sw, this, i + 1,
             sub + gtk_expression_watch_size(self.params[i]))

gtk_closure_expression_watch(S, self, sw, this, notify, user_data) ==
    LET S1 == SetSlot(S, sw.watch, sw.off,
                      [kind |-> "cwatch", notify |-> notify, user_data |-> user_data])
    IN  gtk_closure_expression_watch_loop(S1, self, sw, this, 1,
            sw.off + SizeofClosureExpressionWatch)

gtk_expression_subwatch_init(S, self, sw, this, notify, user_data) ==
    CASE self.kind = "constant" ->
             gtk_expression_watch_static(S, self, sw, this, notify, user_data)
      [] self.kind = "object" ->
             gtk_object_expression_watch(Visit(S, "watch", sw, self),
                                         self, sw, this, notify, user_data)
      [] self.kind = "property" ->
             gtk_property_expression_watch(Visit(S, "watch", sw, self),
                                           self, sw, this, notify, user_data)
      [] self.kind = "closure" ->
             gtk_closure_expression_watch(Visit(S, "watch", sw, self),
                                          self, sw, this, notify, user_data)

gtk_expression_unwatch_static(S, self, sw) == S

gtk_object_expression_unwatch(S, self, sw) ==
    [S EXCEPT !.watches[self.node] = g_slist_remove(@, sw)]

\* Variant: the "notify" handler is left connected.
gtk_property_expression_unwatch_keep_closure(S, self, sw) ==
    IF self.expr.kind # "none" /\ ~gtk_expression_is_static(self.expr)
    THEN gtk_expression_subwatch_finish(S, self.expr,
             Ptr(sw.watch, sw.off + SizeofPropertyExpressionWatch))
    ELSE S

gtk_property_expression_unwatch(S, self, sw) ==
    LET Child(S1) ==
            IF self.expr.kind # "none" /\ ~gtk_expression_is_static(self.expr)
            THEN gtk_expression_subwatch_finish(S1, self.expr,
                     Ptr(sw.watch, sw.off + SizeofPropertyExpressionWatch))
            ELSE S1
    IN  Child(gtk_property_expression_watch_destroy_closure(S, sw))

gtk_closure_expression_unwatch_loop(S, self, sw, i, sub) ==
    IF i > Len(self.params) THEN S
    ELSE IF gtk_expression_is_static(self.params[i])
    THEN gtk_closure_expression_unwatch_loop(S, self, sw, i + 1, sub)
    ELSE gtk_closure_expression_unwatch_loop(
             gtk_expression_subwatch_finish(S, self.params[i], Ptr(sw.watch, sub)),
             self, sw, i + 1,
             sub + gtk_expression_watch_size(self.params[i]))

gtk_closure_expression_unwatch(S, self, sw) ==
    gtk_closure_expression_unwatch_loop(S, self, sw, 1,
        sw.off + SizeofClosureExpressionWatch)

gtk_expression_subwatch_finish(S, self, sw) ==
    CASE self.kind = "constant" -> gtk_expression_unwatch_static(S, self, sw)
      [] self.kind = "object" ->
             gtk_object_expression_unwatch(Visit(S, "unwatch", sw, self), self, sw)
      [] self.kind = "property" ->
             gtk_property_expression_unwatch(Visit(S, "unwatch", sw, self), self, sw)
      [] self.kind = "closure" ->
             gtk_closure_expression_unwatch(Visit(S, "unwatch", sw, self), self, sw)

\* Variant: the weak reference stays registered.
gtk_object_expression_finalize_registered(S, n) ==
    [g_assert(S, S.watches[n] = <<>>, "gtk_object_expression_finalize")
       EXCEPT !.oexpr[n] = "freed"]

\* The last gtk_expression_unref of object expression n:
\* gtk_object_expression_finalize, then the memory is freed.
gtk_object_expression_finalize(S, n) ==
    [g_assert(IF S.object[n] # NULL
              THEN g_object_weak_unref(S, S.object[n],
                                       "gtk_object_expression_weak_ref_cb", n)
              ELSE S,
              S.watches[n] = <<>>, "gtk_object_expression_finalize")
       EXCEPT !.oexpr[n] = "freed"]

\* Variant: no reference is taken.
g_atomic_rc_box_acquire_none(S, self) == S

\* gtk_expression_ref (g_atomic_rc_box_acquire) of the expression self, as it
\* counts for the object expressions in it: a reference to a parent keeps the
\* children alive through the reference the parent holds on each.
g_atomic_rc_box_acquire(S, self) ==
    [S EXCEPT !.erefs = [n \in ObjNodes |->
                            IF n \in ExprNodes(self)
                            THEN [S.erefs[n] EXCEPT !.count = @ + 1]
                            ELSE S.erefs[n]]]

\* gtk_expression_unref (g_atomic_rc_box_release_full) for the object
\* expressions in nodes: the one that loses its last reference is finalized.
RECURSIVE g_atomic_rc_box_release_nodes(_, _)
g_atomic_rc_box_release_nodes(S, nodes) ==
    LET n == CHOOSE n \in nodes : \A m \in nodes : n <= m
        Release(S1) == IF S1.erefs[n].count = 0
                       THEN gtk_object_expression_finalize(S1, n)
                       ELSE S1
    IN  IF nodes = {} THEN S
        ELSE g_atomic_rc_box_release_nodes(
                 Release([S EXCEPT !.erefs[n].count = @ - 1]), nodes \ {n})

g_atomic_rc_box_release_full(S, self) ==
    g_atomic_rc_box_release_nodes(S, ExprNodes(self))

(***************************************************************************)
(* The watch API.                                                          *)
(***************************************************************************)
gtk_expression_watch(S, w, self, this, notify, user_data, user_destroy) ==
    LET Guard(S1) ==
            IF this # NULL
            THEN g_object_weak_ref(S1, this, "gtk_expression_watch_this_cb", w)
            ELSE S1
        Slots(S2) ==
            [S2 EXCEPT !.acct[w].slots =
                SelectSeq(S2.visits, LAMBDA v : v.op = "watch" /\ v.w = w)]
    IN  Slots(gtk_expression_subwatch_init(
            Guard([g_atomic_rc_box_acquire(S, self)
                     EXCEPT !.watch[w] = [mem |-> "live", ref_count |-> 1,
                                          expression |-> self, this |-> this,
                                          user_destroy |-> user_destroy,
                                          notify |-> notify, user_data |-> user_data,
                                          sub |-> NoSub],
                            !.acct[w] = [NoAcct EXCEPT !.this = this,
                                                       !.given = user_destroy # "NULL",
                                                       !.expression_ref = 1],
                            !.alloc = gtk_expression_watch_size(self),
                            !.ret = w]),
            self, Ptr(w, SizeofExpressionWatch), this,
            "gtk_expression_watch_cb", Ptr(w, 0)))

gtk_expression_watch_ref(S, w) ==
    [S EXCEPT !.watch[w].ref_count = @ + 1]

gtk_expression_watch_finalize(S, w) ==
    g_assert(S, ~gtk_expression_watch_is_watching(S.watch[w]),
             "gtk_expression_watch_finalize")

\* g_atomic_rc_box_release_full: the last reference finalizes and frees.
gtk_expression_watch_unref(S, w) ==
    IF S.watch[w].ref_count > 1
    THEN [S EXCEPT !.watch[w].ref_count = @ - 1]
    ELSE [gtk_expression_watch_finalize(S, w) EXCEPT !.watch[w] = NoWatch("freed")]

\* Variant: the record is freed in both branches.
gtk_expression_bind_free_always(S, b) ==
    LET target == S.bind[b].target
        Detach(list) ==
            IF list # <<>> THEN [S EXCEPT !.binds[target] = list]
            ELSE g_object_weak_unref([S EXCEPT !.binds[target] = list], target,
                                     "invalidate_binds", NULL)
    IN  IF target # NULL
        THEN BindSliceFree(Detach(g_slist_remove(S.binds[target], b)), b,
                           "gtk_expression_bind_free")
        ELSE BindSliceFree(S, b, "gtk_expression_bind_free")

gtk_expression_bind_free(S, b) ==
    LET target == S.bind[b].target
        Detach(list) ==
            IF list # <<>> THEN [S EXCEPT !.binds[target] = list]
            ELSE g_object_weak_unref([S EXCEPT !.binds[target] = list], target,
                                     "invalidate_binds", NULL)
    IN  IF target # NULL
        THEN BindSliceFree(Detach(g_slist_remove(S.binds[target], b)), b,
                           "gtk_expression_bind_free")
        ELSE [BindAccess(S, b) EXCEPT !.bind[b].watch = NULL]

\* watch->user_destroy (watch->user_data)
UserDestroy(S, w) ==
    LET Call(S1) == IF S.watch[w].user_destroy = "gtk_expression_bind_free"
                    THEN gtk_expression_bind_free(S1, S.watch[w].user_data)
                    ELSE S1
    IN  Call([Trace(S, "user_destroy", w) EXCEPT !.acct[w].user_destroy = @ + 1])

\* A sub-watch of watch w is still registered: an entry of an object
\* expression's list or a connected "notify" handler.
HasListeners(S, w) ==
    \/ \E n \in ObjNodes : \E i \in 1..Len(S.watches[n]) : S.watches[n][i].watch = w
    \/ \E o \in Objects : \E i \in 1..Len(S.handlers[o]) : S.handlers[o][i].watch = w

\* gtk_expression_subwatch_finish of the tree of watch w.  unwatched records
\* each teardown of the action: the watch, its `this`, expression and
\* user_destroy, and whether a sub-watch was left after the teardown of the
\* sub-watches, and the slots that gtk_expression_watch had initialised.
gtk_expression_watch_unwatch_record(S1, w) ==
    [Trace(S1, "subwatch_finish", w) EXCEPT
       !.unwatched = Append(@,
           [w |-> w, this |-> S1.watch[w].this,
            expression |-> S1.watch[w].expression,
            user_destroy |-> S1.watch[w].user_destroy,
            listeners |-> HasListeners(S1, w),
            slots |-> S1.acct[w].slots])]

gtk_expression_watch_unwatch_sub(S, w) ==
    gtk_expression_watch_unwatch_record(
        gtk_expression_subwatch_finish(S, S.watch[w].expression,
            Ptr(w, SizeofExpressionWatch)),
        w)

\* if (watch->this) g_object_weak_unref (...)
gtk_expression_watch_unwatch_this(S, w) ==
    IF S.watch[w].this # NULL
    THEN Trace(g_object_weak_unref(S, S.watch[w].this,
                   "gtk_expression_watch_this_cb", w),
               "weak_unref", w)
    ELSE S

\* if (watch->user_destroy) watch->user_destroy (watch->user_data)
gtk_expression_watch_unwatch_user(S, w) ==
    IF S.watch[w].user_destroy # "NULL" THEN UserDestroy(S, w) ELSE S

\* g_clear_pointer (&watch->expression, gtk_expression_unref)
gtk_expression_watch_unwatch_expression(S, w) ==
    g_atomic_rc_box_release_full(
        [Trace(S, "expression_unref", w) EXCEPT
           !.watch[w].expression = NoExpr,
           !.acct[w].expression_unref = @ + 1,
           !.acct[w].this = NULL,
           !.acct[w].slots = <<>>],
        S.watch[w].expression)

\* Variant: the watch releases two references.
gtk_expression_watch_unwatch_self_twice(S, w) ==
    gtk_expression_watch_unref(
        gtk_expression_watch_unref(
            [Trace(S, "watch_unref", w) EXCEPT !.acct[w].watch_unref = @ + 1], w),
        w)

\* gtk_expression_watch_unref (watch) of the reference the watch holds on
\* itself while it is watching
gtk_expression_watch_unwatch_self(S, w) ==
    gtk_expression_watch_unref(
        [Trace(S, "watch_unref", w) EXCEPT !.acct[w].watch_unref = @ + 1], w)

\* Variant: no check that the watch is still watching; a watch that was torn
\* down is torn down again.
gtk_expression_watch_unwatch_again(S, w) ==
    gtk_expression_watch_unwatch_self(
        gtk_expression_watch_unwatch_expression(
            gtk_expression_watch_unwatch_user(
                gtk_expression_watch_unwatch_this(
                    IF gtk_expression_watch_is_watching(S.watch[w])
                    THEN gtk_expression_watch_unwatch_sub(S, w)
                    ELSE gtk_expression_watch_unwatch_record(S, w),
                    w), w), w), w)

\* Variant: the weak reference on `this` is left in place.
gtk_expression_watch_unwatch_keep_guard(S, w) ==
    IF ~gtk_expression_watch_is_watching(S.watch[w])
    THEN S
    ELSE gtk_expression_watch_unwatch_self(
             gtk_expression_watch_unwatch_expression(
                 gtk_expression_watch_unwatch_user(
                     gtk_expression_watch_unwatch_sub(S, w), w), w), w)

\* Variant: the user data is destroyed before anything is torn down.
gtk_expression_watch_unwatch_destroy_first(S, w) ==
    IF ~gtk_expression_watch_is_watching(S.watch[w])
    THEN S
    ELSE gtk_expression_watch_unwatch_self(
             gtk_expression_watch_unwatch_expression(
                 gtk_expression_watch_unwatch_this(
                     gtk_expression_watch_unwatch_sub(
                         gtk_expression_watch_unwatch_user(S, w), w), w), w), w)

gtk_expression_watch_unwatch(S, w) ==
    IF ~gtk_expression_watch_is_watching(S.watch[w])
    THEN WatchAccess(S, w)
    ELSE gtk_expression_watch_unwatch_self(
             gtk_expression_watch_unwatch_expression(
                 gtk_expression_watch_unwatch_user(
                     gtk_expression_watch_unwatch_this(
                         gtk_expression_watch_unwatch_sub(S, w), w), w), w), w)

\* Variant: the notification comes after the teardown.
gtk_expression_watch_this_cb_late(S, w) ==
    UserNotify(
        gtk_expression_watch_unwatch(
            [Trace(S, "this_cb", w) EXCEPT !.watch[w].this = NULL], w),
        w)

gtk_expression_watch_this_cb(S, w) ==
    gtk_expression_watch_unwatch(
        UserNotify([Trace(S, "this_cb", w) EXCEPT !.watch[w].this = NULL], w),
        w)

\* The loop of gtk_object_expression_weak_ref_cb over self->watches, for
\* (l = self->watches; l; l = l->next).  list is the list as the loop found
\* it and i the position of l.  An entry that a callback took off the list
\* before the loop came to it is not reached.  When the callback of the
\* entry at l took that entry off the list, g_slist_remove has freed the node
\* l and l->next is read from freed memory (luaf keeps such entries): with
\* ub = "intact" the node still points to what followed it, with
\* ub = "crash" the process ends there.
\* ocalls records each call with what the object expression evaluates to then.
RECURSIVE gtk_object_expression_weak_ref_loop(_, _, _, _)
gtk_object_expression_weak_ref_loop(S, node, list, i) ==
    LET Advance(S2) ==
            IF InSeq(S2.watches[node], list[i])
            THEN gtk_object_expression_weak_ref_loop(S2, node, list, i + 1)
            ELSE IF S2.ub = "crash"
            THEN [S2 EXCEPT !.luaf = @ \cup {list[i]}, !.crashed = TRUE]
            ELSE gtk_object_expression_weak_ref_loop(
                     [S2 EXCEPT !.luaf = @ \cup {list[i]}], node, list, i + 1)
    IN  IF i > Len(list) THEN S
        ELSE IF ~InSeq(S.watches[node], list[i])
        THEN gtk_object_expression_weak_ref_loop(S, node, list, i + 1)
        ELSE Advance(
                 InvokeNotify(
                     [S EXCEPT !.ocalls = Append(@,
                         [node |-> node, entry |-> list[i],
                          ok |-> gtk_object_expression_evaluate(S,
                                     gtk_object_expression_new(node), NULL).ok])],
                     S.watch[list[i].watch].sub[list[i].off].notify,
                     S.watch[list[i].watch].sub[list[i].off].user_data))

\* Variant: the object pointer is cleared after the watches were notified.
gtk_object_expression_weak_ref_cb_late(S, node) ==
    LET S1 == [S EXCEPT !.olist[node] = S.watches[node]]
        S2 == gtk_object_expression_weak_ref_loop(S1, node, S1.watches[node], 1)
    IN  [S2 EXCEPT !.object[node] = NULL]

\* euaf keeps the object expressions whose callback ran on memory that was
\* not live.
gtk_object_expression_weak_ref_cb(S, node) ==
    LET S1 == [S EXCEPT !.object[node] = NULL,
                        !.olist[node] = S.watches[node],
                        !.euaf = IF S.oexpr[node] = "live" THEN @ ELSE @ \cup {node}]
    IN  gtk_object_expression_weak_ref_loop(S1, node, S1.watches[node], 1)

\* gtk_object_expression_new (object) for the node n it allocates: a weak
\* reference is registered on the object, no reference is taken.
gtk_object_expression_alloc(S, n, obj) ==
    g_object_weak_ref(
        [S EXCEPT !.oexpr[n] = "live", !.object[n] = obj, !.watches[n] = <<>>,
                  !.erefs[n] = [count |-> 1, app |-> TRUE]],
        obj, "gtk_object_expression_weak_ref_cb", n)

(***************************************************************************)
(* GObject events: a property is set, an object is finalized.              *)
(***************************************************************************)
\* Emission of "notify::name" on obj: the handlers connected when the emission
\* starts run in connection order; one disconnected meanwhile is skipped, one
\* connected meanwhile is not run.
RECURSIVE g_signal_emit_loop(_, _, _, _)
g_signal_emit_loop(S, obj, list, i) ==
    IF i > Len(list) THEN S
    ELSE g_signal_emit_loop(
             IF InSeq(S.handlers[obj], list[i])
             THEN gtk_property_expression_watch_notify_cb(S,
                      Ptr(list[i].watch, list[i].off))
             ELSE S,
             obj, list, i + 1)

g_object_notify(S, obj, name) ==
    LET IsFor(h) == h.detail = name
    IN  g_signal_emit_loop(S, obj, SelectSeq(S.handlers[obj], IsFor), 1)

\* g_object_set_property: a value whose type the property cannot take (an
\* empty value included) is refused with a warning; otherwise the property is
\* set and "notify" is emitted for it.
g_object_set_property(S, obj, name, value) ==
    IF value.type # PropType(name)
    THEN S
    ELSE g_object_notify([S EXCEPT !.props[obj][name] = value], obj, name)

\* The loop of invalidate_binds over the list attached to the object.
RECURSIVE invalidate_binds_loop(_, _, _)
invalidate_binds_loop(S, list, i) ==
    IF i > Len(list) THEN S
    ELSE invalidate_binds_loop(
             [BindAccess(S, list[i]) EXCEPT !.bind[list[i]].target = NULL],
             list, i + 1)

invalidate_binds(S, obj) == invalidate_binds_loop(S, S.binds[obj], 1)

\* The loop of free_binds over the list that was attached to the object.
RECURSIVE free_binds_loop(_, _, _)
free_binds_loop(S, list, i) ==
    IF i > Len(list) THEN S
    ELSE free_binds_loop(
             BindSliceFree(
                 IF S.bind[list[i]].watch # NULL
                 THEN gtk_expression_watch_unwatch(
                          g_assert(BindAccess(S, list[i]),
                                   S.bind[list[i]].target = NULL, "free_binds"),
                          S.bind[list[i]].watch)
                 ELSE g_assert(BindAccess(S, list[i]),
                               S.bind[list[i]].target = NULL, "free_binds"),
                 list[i], "free_binds"),
             list, i + 1)

free_binds(S, data) == free_binds_loop(S, data, 1)

\* A call of a GWeakNotify with its data and the object being finalized.
WeakNotify(S, ref, obj) ==
    CASE ref.notify = "gtk_object_expression_weak_ref_cb" ->
             gtk_object_expression_weak_ref_cb(S, ref.data)
      [] ref.notify = "gtk_expression_watch_this_cb" ->
             gtk_expression_watch_this_cb(S, ref.data)
      [] ref.notify = "invalidate_binds" ->
             invalidate_binds(S, obj)

RECURSIVE weak_refs_notify(_, _, _, _)
weak_refs_notify(S, obj, list, i) ==
    IF i > Len(list) THEN S
    ELSE weak_refs_notify(WeakNotify(S, list[i], obj), obj, list, i + 1)

DefaultProps == [p \in PropNames |-> IF p = "width" THEN IntValue(0)
                                                 ELSE ObjectValue(NULL)]

\* The last g_object_unref of obj: dispose disconnects the signal handlers,
\* the weak references are taken off the object and notified in array order,
\* then the object is finalized, which disconnects the handlers connected
\* meanwhile and releases its property values.
g_object_finalize(S, obj) ==
    LET Qdata(S2) == IF S2.binds[obj] = <<>> THEN S2
                     ELSE free_binds([S2 EXCEPT !.binds[obj] = <<>>], S2.binds[obj])
        Clear(S3) == [S3 EXCEPT !.handlers[obj] = <<>>,
                                !.props = IF obj \in FooObjects
                                          THEN [@ EXCEPT ![obj] = DefaultProps] ELSE @]
    IN  Clear(Qdata(weak_refs_notify(
            [S EXCEPT !.alive[obj] = FALSE, !.weak_refs[obj] = <<>>,
                      !.handlers[obj] = <<>>],
            obj, S.weak_refs[obj], 1)))

(***************************************************************************)
(* Binds.                                                                  *)
(***************************************************************************)
\* The properties of the classes: those of Foo that are set and read
\* ("width", "next"), a construct-only one ("id") and a read-only one
\* ("name"); Bar has none.
ClassProps(type) ==
    IF type = "Foo" THEN PropNames \cup {"id", "name"} ELSE {}

BindProps == PropNames \cup {"id", "name"}

\* pspec->flags
ParamFlags(pspec) ==
    CASE pspec = "id"   -> {"G_PARAM_READABLE", "G_PARAM_WRITABLE",
                            "G_PARAM_CONSTRUCT_ONLY"}
      [] pspec = "name" -> {"G_PARAM_READABLE"}
      [] OTHER          -> {"G_PARAM_READABLE", "G_PARAM_WRITABLE"}

\* g_object_class_find_property (G_OBJECT_GET_CLASS (target), property)
g_object_class_find_property(target, property) ==
    IF property \in ClassProps(TypeOf(target)) THEN property ELSE "NULL"

\* Variant: only the writable flag is looked at.
gtk_expression_bind_writable(pspec) ==
    "G_PARAM_WRITABLE" \in ParamFlags(pspec)

\* (pspec->flags & (G_PARAM_WRITABLE | G_PARAM_CONSTRUCT_ONLY)) == G_PARAM_WRITABLE
gtk_expression_bind_settable(pspec) ==
    ParamFlags(pspec) \cap {"G_PARAM_WRITABLE", "G_PARAM_CONSTRUCT_ONLY"}
        = {"G_PARAM_WRITABLE"}

\* gtk_expression_unref (self) of the reference the caller passed in
gtk_expression_unref(S) == [S EXCEPT !.unrefs = @ + 1]

\* Variant: the guard is registered with every bind.
gtk_expression_bind_reguard(S, w, self, target, property, this) ==
    LET pspec == g_object_class_find_property(target, property)
        Guard(S0) == g_object_weak_ref(S0, target, "invalidate_binds", NULL)
        New(S1) == [S1 EXCEPT !.bind[w] = [mem |-> "live", watch |-> NULL,
                                           target |-> target, pspec |-> pspec]]
        Attach(S3) == [S3 EXCEPT !.bind[w].watch = w,
                                 !.binds[target] = g_slist_prepend(@, w)]
        Return(S6) == [S6 EXCEPT !.ret = S6.bind[w].watch]
    IN  IF pspec = "NULL" THEN [S EXCEPT !.ret = NULL]
        ELSE IF ~gtk_expression_bind_settable(pspec) THEN [S EXCEPT !.ret = NULL]
        ELSE Return(gtk_expression_bind_notify(
                 gtk_expression_unref(
                     Attach(gtk_expression_watch(New(Guard(S)), w, self, this,
                                "gtk_expression_bind_notify", w,
                                "gtk_expression_bind_free"))),
                 w))

\* gtk_expression_bind with the watch w it allocates; ret is what it returns.
gtk_expression_bind(S, w, self, target, property, this) ==
    LET pspec == g_object_class_find_property(target, property)
        Guard(S0) == IF S0.binds[target] = <<>>
                     THEN g_object_weak_ref(S0, target, "invalidate_binds", NULL)
                     ELSE S0
        New(S1) == [S1 EXCEPT !.bind[w] = [mem |-> "live", watch |-> NULL,
                                           target |-> target, pspec |-> pspec]]
        Attach(S3) == [S3 EXCEPT !.bind[w].watch = w,
                                 !.binds[target] = g_slist_prepend(@, w)]
        Return(S6) == [S6 EXCEPT !.ret = S6.bind[w].watch]
    IN  IF pspec = "NULL" THEN [S EXCEPT !.ret = NULL]
        ELSE IF ~gtk_expression_bind_settable(pspec) THEN [S EXCEPT !.ret = NULL]
        ELSE Return(gtk_expression_bind_notify(
                 gtk_expression_unref(
                     Attach(gtk_expression_watch(New(Guard(S)), w, self, this,
                                "gtk_expression_bind_notify", w,
                                "gtk_expression_bind_free"))),
                 w))

(***************************************************************************)
(* The state machine.                                                      *)
(***************************************************************************)
\* The state an action starts from: the variables, the per-action counters
\* reset.
NoCall == [op |-> "none"]

Begin ==
    [alive |-> alive, props |-> props, weak_refs |-> weak_refs,
     handlers |-> handlers, oexpr |-> oexpr, erefs |-> erefs, object |-> object,
     watches |-> watches,
     watch |-> watch, bind |-> bind, binds |-> binds, acct |-> acct,
     fired |-> [w \in Watches |-> 0], sfired |-> {}, seq |-> 1, stack |-> <<>>,
     olist |-> [n \in ObjNodes |-> <<>>], ocalls |-> <<>>,
     trace |-> <<>>, unwatched |-> <<>>, wdiff |-> {}, bwrites |-> <<>>,
     bnotes |-> <<>>, buaf |-> {}, bfrees |-> <<>>, asserts |-> {}, euaf |-> {}, relays |-> <<>>, visits |-> <<>>,
     wuaf |-> {}, luaf |-> {}, crashed |-> FALSE, evals |-> {}, hung |-> {},
     alloc |-> -1, touched |-> 0, ret |-> NULL, unrefs |-> 0, call |-> NoCall,
     ub |-> "intact"]

\* What an action leaves in last, before any action has run.
NoLast ==
    [changed |-> {}, sfired |-> {},
     olist |-> [n \in ObjNodes |-> <<>>], ocalls |-> <<>>,
     trace |-> <<>>, unwatched |-> <<>>, wdiff |-> {}, bwrites |-> <<>>,
     bnotes |-> <<>>, buaf |-> {}, bfrees |-> <<>>, asserts |-> {}, euaf |-> {}, relays |-> <<>>, visits |-> <<>>,
     wuaf |-> {}, luaf |-> {}, crashed |-> FALSE, evals |-> {}, hung |-> {},
     alloc |-> -1, touched |-> 0, ret |-> NULL, unrefs |-> 0, call |-> NoCall]

\* The state of the variables as a record, for evaluation in a formula.
Now == [alive |-> alive, props |-> props, object |-> object, watch |-> watch,
        handlers |-> handlers]

RECURSIVE ConstObjects(_)
ConstObjects(e) ==
    CASE e.kind = "constant" ->
             IF e.value.type = "object" /\ e.value.v # NULL THEN {e.value.v} ELSE {}
      [] e.kind = "property" -> ConstObjects(e.expr)
      [] e.kind = "closure" ->
             UNION {ConstObjects(e.params[i]) : i \in 1..Len(e.params)}
      [] OTHER -> {}

\* Watches whose expression evaluates differently after the action than before.
Changed(S) ==
    {w \in Watches :
        /\ gtk_expression_watch_is_watching(watch[w])
        /\ watch[w].this # NULL => S.alive[watch[w].this]
        /\ gtk_expression_evaluate(Now, watch[w].expression, watch[w].this)
             # gtk_expression_evaluate(S, watch[w].expression, watch[w].this)}

\* The call returns: the variables are what the call left.
Return(S) ==
    /\ alive' = S.alive
    /\ props' = S.props
    /\ weak_refs' = S.weak_refs
    /\ handlers' = [o \in Objects |->
                      [i \in 1..Len(S.handlers[o]) |->
                          [S.handlers[o][i] EXCEPT !.seq = 0]]]
    /\ oexpr' = S.oexpr
    /\ erefs' = S.erefs
    /\ object' = S.object
    /\ watches' = S.watches
    /\ watch' = S.watch
    /\ bind' = S.bind
    /\ binds' = S.binds
    /\ acct' = S.acct
    /\ fired' = S.fired
    /\ last' = [changed |-> Changed(S), sfired |-> S.sfired,
                olist |-> S.olist, ocalls |-> S.ocalls,
                trace |-> S.trace, unwatched |-> S.unwatched,
                wdiff |-> S.wdiff, bwrites |-> S.bwrites,
                bnotes |-> S.bnotes, buaf |-> S.buaf, bfrees |-> S.bfrees, asserts |-> S.asserts, euaf |-> S.euaf, relays |-> S.relays, visits |-> S.visits,
                wuaf |-> S.wuaf, luaf |-> S.luaf, crashed |-> S.crashed,
                evals |-> S.evals, hung |-> S.hung,
                alloc |-> S.alloc, touched |-> S.touched,
                ret |-> S.ret, unrefs |-> S.unrefs, call |-> S.call]
    /\ lastEval' = [lastEval EXCEPT !.fresh = FALSE]

\* The call does not return: the variables stay what they were when it began,
\* last keeps the binds that repeat and the writes made until the repetition
\* was found.
Hang(S) ==
    /\ last' = [NoLast EXCEPT !.hung = S.hung, !.bwrites = S.bwrites,
                              !.call = S.call]
    /\ UNCHANGED <<alive, props, weak_refs, handlers, oexpr, erefs, object,
                   watches, watch, bind, binds, acct, fired, lastEval>>

Commit(S) == IF S.hung = {} THEN Return(S) ELSE Hang(S)

\* lastEval: the expression and `this` of the call and what it returned (refs:
\* the references to its source object that the evaluation of a property
\* expression left behind); for a
\* closure expression also what the run did.  static is what
\* gtk_expression_is_static returned for the expression.  fresh: nothing has
\* happened since the call.  again: the call before was for the same
\* expression and `this`, with events in between.
NoEval == [expr |-> NoExpr, this |-> NULL, ok |-> FALSE, value |-> Empty,
           static |-> FALSE, evaluated |-> 0, invoked |-> FALSE, live |-> 0,
           refs |-> 0, fresh |-> FALSE, again |-> FALSE]

Init ==
    /\ alive = [o \in Objects |-> TRUE]
    /\ props = [o \in FooObjects |-> DefaultProps]
    /\ weak_refs = [o \in Objects |->
                      <<[notify |-> "gtk_object_expression_weak_ref_cb", data |-> o]>>]
    /\ handlers = [o \in Objects |-> <<>>]
    /\ oexpr = [n \in ObjNodes |-> "live"]
    /\ erefs = [n \in ObjNodes |-> [count |-> 1, app |-> TRUE]]
    /\ object = [n \in ObjNodes |-> n]
    /\ watches = [n \in ObjNodes |-> <<>>]
    /\ watch = [w \in Watches |-> NoWatch("unused")]
    /\ bind = [w \in Watches |-> NoBind("unused")]
    /\ binds = [o \in Objects |-> <<>>]
    /\ acct = [w \in Watches |-> NoAcct]
    /\ fired = [w \in Watches |-> 0]
    /\ last = NoLast
    /\ lastEval = NoEval

\* An object is kept alive by a property of a live object that holds it, by a
\* constant expression that holds it (the expression of a watch, or the one
\* the application evaluates).
Held(o) ==
    \/ \E f \in FooObjects : alive[f] /\ props[f]["next"].v = o
    \/ \E w \in Watches : o \in ConstObjects(watch[w].expression)
    \/ o \in ConstObjects(lastEval.expr)

\* Expressions are built from live objects.
Constructible(e) == \A o \in ConstObjects(e) : alive[o]

Lit == gtk_constant_expression_new(IntValue(MaxVal))
ThisWidth == gtk_property_expression_new(NoExpr, "width")
ThisNext  == gtk_property_expression_new(NoExpr, "next")

\* The expressions the application watches: every kind of node, alone and
\* as the child or parameter of the others.
WatchExprs ==
    { Lit,
      gtk_object_expression_new(1),
      ThisWidth,
      gtk_property_expression_new(gtk_object_expression_new(1), "width"),
      gtk_property_expression_new(
          gtk_constant_expression_new(ObjectValue(NumFoo)), "width"),
      gtk_property_expression_new(ThisNext, "width"),
      gtk_closure_expression_new("int", "sum", <<Lit>>),
      gtk_closure_expression_new("int", "sum", <<Lit, ThisWidth>>),
      gtk_closure_expression_new("int", "sum",
          <<gtk_object_expression_new(1),
            gtk_property_expression_new(gtk_object_expression_new(NumFoo), "width")>>),
      gtk_property_expression_new(
          gtk_closure_expression_new("object", "first",
              <<gtk_object_expression_new(1)>>), "width") }

\* The expressions of the watches installed after the first one: those that
\* share the object expression of object 1 with it.
MoreWatchExprs ==
    { gtk_object_expression_new(1),
      gtk_property_expression_new(gtk_object_expression_new(1), "width") }

WatchPool == IF \A w \in Watches : watch[w].mem = "unused"
             THEN WatchExprs ELSE MoreWatchExprs

\* The objects whose "next" property the application sets.
NextHolders == {1}

Watch(e, this) ==
    /\ \E w \in Watches : watch[w].mem = "unused"
    /\ e \in WatchPool
    /\ this # NULL => alive[this]
    /\ Constructible(e)
    /\ LET w == CHOOSE w \in Watches :
                   watch[w].mem = "unused" /\ \A v \in 1..(w - 1) : watch[v].mem # "unused"
       IN  Commit(gtk_expression_watch(Begin, w, e, this, "notify", NULL, "NULL"))

\* gtk_expression_watch_unwatch on a handle the application may use: the
\* watch is watching, or the application holds a reference to it.
Unwatch(w) ==
    /\ watch[w].mem = "live"
    /\ Commit(gtk_expression_watch_unwatch(Begin, w))

SetProperty(obj, name, value) ==
    /\ alive[obj]
    /\ name = "next" => obj \in NextHolders
    /\ value.type = "object" /\ value.v # NULL => alive[value.v]
    /\ Commit(g_object_set_property(Begin, obj, name, value))

Destroy(obj) ==
    /\ alive[obj]
    /\ ~Held(obj)
    /\ Commit(g_object_finalize(Begin, obj))

World ==
    \/ \E obj \in FooObjects, name \in PropNames :
          \E value \in PropValues(name) : SetProperty(obj, name, value)
    \/ \E obj \in Objects : Destroy(obj)

Next ==
    \/ \E e \in WatchExprs \cup MoreWatchExprs, this \in This : Watch(e, this)
    \/ \E w \in Watches : Unwatch(w)
    \/ World

Spec == Init /\ [][Next]_vars

(***************************************************************************)
(* Evaluation on its own: the application evaluates expressions between    *)
(* the events of the world; nothing is watched.                            *)
(***************************************************************************)
SumParams == {Lit, gtk_object_expression_new(1), ThisWidth}

ParamSeqs ==
    UNION {[1..n -> SumParams] : n \in 0..MaxParams}

EvalLeaves ==
    { Lit,
      gtk_constant_expression_new(ObjectValue(NumFoo)),
      gtk_object_expression_new(1),
      gtk_object_expression_new(BarObject),
      ThisWidth,
      ThisNext }

EvalExprs ==
    EvalLeaves
    \cup {gtk_property_expression_new(c, "width") : c \in EvalLeaves \ {ThisWidth}}
    \cup {gtk_closure_expression_new("int", "sum", p) : p \in ParamSeqs}
    \cup { gtk_closure_expression_new("object", "first", <<>>),
           gtk_closure_expression_new("int", "sum",
               <<gtk_closure_expression_new("int", "sum", <<Lit>>)>>),
           gtk_closure_expression_new("int", "sum",
               <<gtk_closure_expression_new("int", "sum", <<ThisWidth>>), Lit>>),
           gtk_property_expression_new(
               gtk_closure_expression_new("object", "first", <<Lit>>), "width") }

\* The application calls gtk_expression_evaluate (e, this, &value) on an empty
\* value and gtk_expression_is_static (e).
EvaluateCall(e, this) ==
    /\ this # NULL => alive[this]
    /\ Constructible(e)
    /\ LET r   == gtk_expression_evaluate(Now, e, this)
           run == IF e.kind = "closure"
                  THEN gtk_closure_expression_run(Now, e, this)
                  ELSE [evaluated |-> 0, invoked |-> FALSE, live |-> 0]
       IN  lastEval' = [expr |-> e, this |-> this, ok |-> r.ok, value |-> r.value,
                        static |-> gtk_expression_is_static(e),
                        evaluated |-> run.evaluated, invoked |-> run.invoked,
                        live |-> run.live,
                        refs |-> IF e.kind = "property"
                                 THEN gtk_property_expression_evaluate_refs(Now, e, this)
                                 ELSE 0,
                        fresh |-> TRUE,
                        again |-> /\ lastEval.expr = e
                                  /\ lastEval.this = this
                                  /\ ~lastEval.fresh]
    /\ UNCHANGED <<alive, props, weak_refs, handlers, oexpr, erefs, object, watches,
                   watch, bind, binds, acct, fired, last>>

NextEval ==
    \/ \E e \in EvalExprs, this \in This : EvaluateCall(e, this)
    \/ World

SpecEval == Init /\ [][NextEval]_vars

(***************************************************************************)
(* The life of a watch: watches with and without a user_destroy, handles   *)
(* the application keeps a reference to, and the events of the world.      *)
(***************************************************************************)
StaticClosure == gtk_closure_expression_new("object", "first", <<Lit>>)

LifeExprs ==
    { Lit,
      ThisWidth,
      gtk_object_expression_new(1),
      gtk_property_expression_new(gtk_object_expression_new(1), "width"),
      gtk_property_expression_new(StaticClosure, "width"),
      gtk_closure_expression_new("int", "sum",
          <<Lit, ThisWidth, gtk_object_expression_new(1)>>) }

MoreLifeExprs == {ThisWidth, gtk_object_expression_new(1)}

LifePool == IF \A w \in Watches : watch[w].mem = "unused"
            THEN LifeExprs ELSE MoreLifeExprs

UserDestroys == {"NULL", "user_destroy"}

WatchWith(e, this, user_destroy) ==
    /\ \E w \in Watches : watch[w].mem = "unused"
    /\ e \in LifePool
    /\ this # NULL => alive[this]
    /\ Constructible(e)
    /\ LET w == CHOOSE w \in Watches :
                   watch[w].mem = "unused" /\ \A v \in 1..(w - 1) : watch[v].mem # "unused"
       IN  Commit(gtk_expression_watch(Begin, w, e, this, "notify", NULL,
                                       user_destroy))

\* The application takes a reference to the handle gtk_expression_watch
\* returned, while the watch is watching.
Ref(w) ==
    /\ gtk_expression_watch_is_watching(watch[w])
    /\ watch[w].ref_count = 1
    /\ Commit(gtk_expression_watch_ref([Begin EXCEPT !.acct[w].held = @ + 1], w))

\* The application releases the reference it took.
Unref(w) ==
    /\ watch[w].mem = "live"
    /\ watch[w].ref_count
         > (IF gtk_expression_watch_is_watching(watch[w]) THEN 1 ELSE 0)
    /\ Commit(gtk_expression_watch_unref([Begin EXCEPT !.acct[w].held = @ - 1], w))

\* The events of the objects that these expressions can see: the property
\* that they read changes on object 1, and objects are destroyed.
LifeWorld ==
    \/ \E value \in PropValues("width") : SetProperty(1, "width", value)
    \/ \E obj \in Objects : Destroy(obj)

NextLife ==
    \/ \E e \in LifeExprs, this \in This, user_destroy \in UserDestroys :
          WatchWith(e, this, user_destroy)
    \/ \E w \in Watches : Ref(w)
    \/ \E w \in Watches : Unref(w)
    \/ \E w \in Watches : Unwatch(w)
    \/ LifeWorld

SpecLife == Init /\ [][NextLife]_vars

(***************************************************************************)
(* Binds: the application binds expressions to properties of the last Foo  *)
(* object (or of the Bar object, which has none), keeps handles, unwatches *)
(* them, and the objects change and go away.  The expressions read object  *)
(* 1 or `this`; a bind whose expression reads the property that the bind   *)
(* writes is not made here.                                                *)
(***************************************************************************)
BindExprs ==
    { Lit,
      ThisWidth,
      gtk_object_expression_new(1),
      gtk_property_expression_new(gtk_object_expression_new(1), "width") }

\* The binds after the first are of these expressions.
MoreBindExprs == {Lit, ThisWidth}

BindPool == IF \A w \in Watches : watch[w].mem = "unused"
            THEN BindExprs ELSE MoreBindExprs

\* The properties bound: every property of the last Foo object, one that the
\* Bar object does not have, and "width" of object 1.
BindTargets ==
    {<<NumFoo, property>> : property \in BindProps}
        \cup {<<BarObject, "width">>, <<1, "width">>}

\* The write of the bind does not change what its expression evaluates to:
\* an expression bound to its own `this` does not read a property, and what
\* is bound to object 1, whose "width" the expressions read, is static.
NoFeedback(e, target, this) ==
    /\ this = target => (gtk_expression_is_static(e) \/ e.kind = "object")
    /\ target = 1 => gtk_expression_is_static(e)

Bind(e, target, property, this) ==
    /\ \E w \in Watches : watch[w].mem = "unused"
    /\ e \in BindPool
    /\ alive[target]
    /\ this # NULL => alive[this]
    /\ Constructible(e)
    /\ NoFeedback(e, target, this)
    /\ LET w == CHOOSE w \in Watches :
                   watch[w].mem = "unused" /\ \A v \in 1..(w - 1) : watch[v].mem # "unused"
           S == [Begin EXCEPT !.call = [op |-> "bind", target |-> target,
                                        property |-> property,
                                        value_type |-> gtk_expression_get_value_type(e)]]
       IN  Commit(gtk_expression_bind(S, w, e, target, property, this))

NextBind ==
    \/ \E e \in BindExprs, t \in BindTargets, this \in This :
          Bind(e, t[1], t[2], this)
    \/ \E w \in Watches : Ref(w)
    \/ \E w \in Watches : Unref(w)
    \/ \E w \in Watches : Unwatch(w)
    \/ LifeWorld

SpecBind == Init /\ [][NextBind]_vars

(***************************************************************************)
(* Callbacks that unwatch: the application watches with a notify callback  *)
(* that only counts, or with one that unwatches the watch itself or the    *)
(* other watch; it may keep a reference to the handles.  Objects change    *)
(* and are destroyed; what a read of freed memory gives is chosen with     *)
(* the destruction.                                                        *)
(***************************************************************************)
ReenterExprs ==
    { Lit,
      gtk_object_expression_new(1),
      gtk_property_expression_new(gtk_object_expression_new(1), "width") }

\* The `this` of these watches.
ReenterThis == {NULL, 1}

\* The callbacks: notify and user data.
Callbacks ==
    {<<"notify", NULL>>} \cup {<<"notify_unwatch", v>> : v \in Watches}

\* The outcomes of a read of freed memory.
Outcomes == {"intact", "crash"}

WatchCallback(e, this, cb) ==
    /\ \E w \in Watches : watch[w].mem = "unused"
    /\ this # NULL => alive[this]
    /\ LET w == CHOOSE w \in Watches :
                   watch[w].mem = "unused" /\ \A v \in 1..(w - 1) : watch[v].mem # "unused"
       IN  Commit(gtk_expression_watch(Begin, w, e, this, cb[1], cb[2], "NULL"))

DestroyWith(obj, ub) ==
    /\ alive[obj]
    /\ ~Held(obj)
    /\ Commit(g_object_finalize([Begin EXCEPT !.ub = ub], obj))

NextReenter ==
    \/ \E e \in ReenterExprs, this \in ReenterThis, cb \in Callbacks :
          WatchCallback(e, this, cb)
    \/ \E w \in Watches : Ref(w)
    \/ \E w \in Watches : Unref(w)
    \/ \E w \in Watches : Unwatch(w)
    \/ \E value \in PropValues("width") : SetProperty(1, "width", value)
    \/ \E obj \in Objects, ub \in Outcomes : DestroyWith(obj, ub)

SpecReenter == Init /\ [][NextReenter]_vars

(***************************************************************************)
(* Binds that feed themselves: the application binds "width" of an object  *)
(* to an expression that may read that very property, directly or through *)
(* the other bind; "width" of object 1 is set, watches are unwatched and   *)
(* objects destroyed.  After a call that does not return nothing happens.  *)
(***************************************************************************)
FeedbackExprs ==
    { Lit,
      ThisWidth,
      gtk_property_expression_new(gtk_object_expression_new(1), "width") }

\* No call is running that does not return.
Running == last.hung = {}

BindFeedback(e, target, this) ==
    /\ Running
    /\ \E w \in Watches : watch[w].mem = "unused"
    /\ alive[target]
    /\ this # NULL => alive[this]
    /\ LET w == CHOOSE w \in Watches :
                   watch[w].mem = "unused" /\ \A v \in 1..(w - 1) : watch[v].mem # "unused"
           S == [Begin EXCEPT !.call = [op |-> "bind", target |-> target,
                                        property |-> "width",
                                        value_type |-> gtk_expression_get_value_type(e)]]
       IN  Commit(gtk_expression_bind(S, w, e, target, "width", this))

UnwatchFeedback(w) == Running /\ Unwatch(w)

SetPropertyFeedback(value) == Running /\ SetProperty(1, "width", value)

DestroyFeedback(obj) == Running /\ Destroy(obj)

NextFeedback ==
    \/ \E e \in FeedbackExprs, target \in FooObjects, this \in This :
          BindFeedback(e, target, this)
    \/ \E w \in Watches : UnwatchFeedback(w)
    \/ \E value \in PropValues("width") : SetPropertyFeedback(value)
    \/ \E obj \in Objects : DestroyFeedback(obj)

SpecFeedback == Init /\ [][NextFeedback]_vars

(***************************************************************************)
(* Object expressions from construction to finalization: the application   *)
(* creates the object expression of an object, watches it or a property    *)
(* expression over it, unwatches, and drops its reference to the           *)
(* expression when no watch holds one; meanwhile "width" of object 1       *)
(* changes and objects are destroyed.                                      *)
(***************************************************************************)
\* Nothing has been constructed yet.
InitObj ==
    /\ alive = [o \in Objects |-> TRUE]
    /\ props = [o \in FooObjects |-> DefaultProps]
    /\ weak_refs = [o \in Objects |-> <<>>]
    /\ handlers = [o \in Objects |-> <<>>]
    /\ oexpr = [n \in ObjNodes |-> "unused"]
    /\ erefs = [n \in ObjNodes |-> [count |-> 0, app |-> FALSE]]
    /\ object = [n \in ObjNodes |-> NULL]
    /\ watches = [n \in ObjNodes |-> <<>>]
    /\ watch = [w \in Watches |-> NoWatch("unused")]
    /\ bind = [w \in Watches |-> NoBind("unused")]
    /\ binds = [o \in Objects |-> <<>>]
    /\ acct = [w \in Watches |-> NoAcct]
    /\ fired = [w \in Watches |-> 0]
    /\ last = NoLast
    /\ lastEval = NoEval

\* The expressions watched: the object expressions, and the "width" of the
\* object of object expression 1.
ObjectExprs ==
    {gtk_object_expression_new(n) : n \in ObjNodes}
        \cup {gtk_property_expression_new(gtk_object_expression_new(1), "width")}

\* What is held of each object before a call.
HeldNow == [o \in Objects |-> Held(o)]

NewObjectExpression(n) ==
    /\ oexpr[n] = "unused"
    /\ alive[n]
    /\ Commit(gtk_object_expression_alloc(
           [Begin EXCEPT !.call = [op |-> "object_expression_new", node |-> n,
                                   held |-> HeldNow]],
           n, n))

\* The application drops its reference to the expression; it is the last
\* one when no watch holds the expression.
UnrefObjectExpression(n) ==
    /\ oexpr[n] = "live"
    /\ erefs[n].app
    /\ Commit(g_atomic_rc_box_release_nodes(
           [Begin EXCEPT !.call = [op |-> "expression_unref", node |-> n,
                                   held |-> HeldNow],
                         !.erefs[n].app = FALSE],
           {n}))

WatchObjectExpression(e) ==
    /\ \E w \in Watches : watch[w].mem = "unused"
    /\ \A n \in ExprNodes(e) : oexpr[n] = "live" /\ erefs[n].app
    /\ LET w == CHOOSE w \in Watches :
                   watch[w].mem = "unused" /\ \A v \in 1..(w - 1) : watch[v].mem # "unused"
       IN  Commit(gtk_expression_watch(
               [Begin EXCEPT !.call = [op |-> "watch", held |-> HeldNow]],
               w, e, NULL, "notify", NULL, "NULL"))

UnwatchObjectExpression(w) ==
    /\ gtk_expression_watch_is_watching(watch[w])
    /\ Commit(gtk_expression_watch_unwatch(
           [Begin EXCEPT !.call = [op |-> "unwatch", held |-> HeldNow]], w))

NextObj ==
    \/ \E n \in ObjNodes : NewObjectExpression(n)
    \/ \E n \in ObjNodes : UnrefObjectExpression(n)
    \/ \E e \in ObjectExprs : WatchObjectExpression(e)
    \/ \E w \in Watches : UnwatchObjectExpression(w)
    \/ LifeWorld

SpecObj == InitObj /\ [][NextObj]_vars

(***************************************************************************)
(* Properties of the watch protocol, checked under Spec.                   *)
(***************************************************************************)

\* C1: no false negatives.  Whenever a property set or an object destruction
\* changes what a watching watch's expression evaluates to for its `this`,
\* the notify of that watch has been invoked at least once by the time the
\* event has been handled (notifications without a change are allowed).
C1_NoFalseNegatives ==
    \A w \in last.changed : fired[w] >= 1

\* A closure expression's watch was notified of a change of one of its
\* parameters and is still installed.
C1_Witness ==
    \E w \in last.changed :
        /\ fired[w] >= 1
        /\ watch[w].expression.kind = "closure"

\* C3: an object expression evaluates to its object while the object is
\* alive and fails once the object's destruction notification has run, already
\* inside the callbacks that notification invokes; every watch entry
\* registered on the expression at that moment is invoked exactly once.
C3_ObjectExpression ==
    /\ \A n \in ObjNodes :
          gtk_object_expression_evaluate(Now, gtk_object_expression_new(n), NULL)
            = IF alive[n] THEN EvalOk(ObjectValue(n)) ELSE EvalFail
    /\ \A i \in 1..Len(last.ocalls) : ~last.ocalls[i].ok
    /\ \A n \in ObjNodes : \A j \in 1..Len(last.olist[n]) :
          Cardinality({i \in 1..Len(last.ocalls) :
                          /\ last.ocalls[i].node = n
                          /\ last.ocalls[i].entry = last.olist[n][j]}) = 1

\* An object with two watch entries on its object expression was destroyed.
C3_Witness ==
    \E n \in ObjNodes :
        /\ ~alive[n]
        /\ Len(last.olist[n]) >= 2
        /\ Len(last.ocalls) >= 2

\* C10: a watch on a static expression never has its notify invoked, the
\* destruction of the watch's `this` included.
C10_StaticWatchNeverNotifies ==
    last.sfired = {}

(***************************************************************************)
(* Properties of evaluation, checked under SpecEval.                       *)
(***************************************************************************)

\* C2: evaluating a constant expression succeeds with the stored value for
\* every `this`, and the expression is static.
C2_Constant ==
    lastEval.expr.kind = "constant" =>
        /\ lastEval.ok
        /\ lastEval.value = lastEval.expr.value
        /\ lastEval.static

\* A constant holding an object was evaluated without a `this`.
C2_Witness ==
    /\ lastEval.expr.kind = "constant"
    /\ lastEval.expr.value.type = "object"
    /\ lastEval.this = NULL
    /\ lastEval.ok

\* C4: a property expression without a child fails when `this` is absent;
\* when `this` has the property it returns the property's current value.
C4_PropertyOfThis ==
    (/\ lastEval.fresh
     /\ lastEval.expr.kind = "property"
     /\ lastEval.expr.expr.kind = "none") =>
        /\ lastEval.this = NULL =>
              ~lastEval.ok /\ lastEval.value = Empty
        /\ (lastEval.this # NULL /\ TypeOf(lastEval.this) = OwnerType(lastEval.expr.pspec)) =>
              /\ lastEval.ok
              /\ lastEval.value = props[lastEval.this][lastEval.expr.pspec]

\* The property was evaluated a second time after it had been set to a value
\* other than its initial one.
C4_Witness ==
    /\ lastEval.fresh /\ lastEval.again
    /\ lastEval.expr = ThisWidth
    /\ lastEval.this \in FooObjects
    /\ lastEval.ok
    /\ lastEval.value = IntValue(MaxVal)

\* C5: a property expression without a child fails, with the output left
\* empty, when `this` is a live object that does not conform to the type the
\* property was declared on.
C5_PropertyOfForeignThis ==
    (/\ lastEval.fresh
     /\ lastEval.expr.kind = "property"
     /\ lastEval.expr.expr.kind = "none"
     /\ lastEval.this # NULL
     /\ ~TypeCheckInstance(lastEval.this, OwnerType(lastEval.expr.pspec))) =>
        ~lastEval.ok /\ lastEval.value = Empty

\* C6: when parameter k is the first parameter of a closure expression whose
\* evaluation fails, the parameters after k are not evaluated, the callable is
\* not invoked, the evaluation fails with the output left empty, and the
\* values of the parameters before k have been released.
C6_ClosureFirstFailure ==
    (lastEval.fresh /\ lastEval.expr.kind = "closure") =>
        LET e     == lastEval.expr
            fails == {i \in 1..Len(e.params) :
                         ~gtk_expression_evaluate(Now, e.params[i], lastEval.this).ok}
        IN  fails # {} =>
                LET k == CHOOSE i \in fails : \A j \in fails : i <= j
                IN  /\ lastEval.evaluated = k
                    /\ ~lastEval.invoked
                    /\ ~lastEval.ok
                    /\ lastEval.value = Empty
                    /\ lastEval.live = 0

\* The second of two parameters failed after the first had produced a value.
C6_Witness ==
    /\ lastEval.fresh
    /\ lastEval.expr.kind = "closure"
    /\ Len(lastEval.expr.params) = 2
    /\ lastEval.evaluated = 2
    /\ ~lastEval.ok

\* C7: an evaluation returns success exactly when the output has been
\* initialised, and then the output has the expression's value type; on
\* failure the output is empty.
C7_SuccessIffInitialised ==
    lastEval.expr.kind # "none" =>
        /\ lastEval.ok <=> lastEval.value # Empty
        /\ lastEval.ok =>
              lastEval.value.type = gtk_expression_get_value_type(lastEval.expr)

\* C8: whether an expression is static is a function of the shape of its
\* tree: a constant is, an object expression is not, a property expression
\* never is, a closure expression is exactly when all its parameters are (so
\* one without parameters is).
C8_StaticByShape ==
    LET RECURSIVE Shape(_)
        Shape(e) ==
            CASE e.kind = "constant" -> TRUE
              [] e.kind = "object"   -> FALSE
              [] e.kind = "property" -> FALSE
              [] e.kind = "closure"  ->
                     \A i \in 1..Len(e.params) : Shape(e.params[i])
    IN  lastEval.expr.kind # "none" => lastEval.static = Shape(lastEval.expr)

\* A property expression with a constant child was found not to be static, by
\* a call made with a `this`.
C8_Witness ==
    /\ lastEval.expr.kind = "property"
    /\ lastEval.expr.expr.kind = "constant"
    /\ lastEval.this # NULL
    /\ ~lastEval.static

\* C9: two evaluations of a static expression for the same `this` give the
\* same result, whatever properties were set and objects destroyed between
\* them.
C9_StaticIsStable ==
    [][(/\ lastEval.expr.kind # "none"
        /\ lastEval'.expr = lastEval.expr
        /\ lastEval'.this = lastEval.this
        /\ lastEval'.static)
       => (lastEval'.ok = lastEval.ok /\ lastEval'.value = lastEval.value)]_vars

\* A static closure expression with a parameter was evaluated again for the
\* same `this` after an object had been destroyed.
C9_Witness ==
    /\ lastEval.fresh /\ lastEval.again
    /\ lastEval.static
    /\ lastEval.expr.kind = "closure"
    /\ Len(lastEval.expr.params) >= 1
    /\ \E o \in Objects : ~alive[o]

(***************************************************************************)
(* Properties of the life of a watch, checked under SpecLife.              *)
(***************************************************************************)

C12_UnwatchOrder ==
    \A i \in 1..Len(last.trace) :
        last.trace[i].ev = "subwatch_finish" =>
            LET w  == last.trace[i].w
                n  == Cardinality({j \in 1..i : last.trace[j].ev = "subwatch_finish"})
                u  == last.unwatched[n]
                steps ==
                    <<"subwatch_finish">>
                    \o (IF u.this # NULL THEN <<"weak_unref">> ELSE <<>>)
                    \o (IF u.user_destroy # "NULL" THEN <<"user_destroy">> ELSE <<>>)
                    \o <<"expression_unref", "watch_unref">>
            IN  /\ u.w = w
                /\ ~u.listeners
                /\ Len(last.trace) >= i + Len(steps) - 1
                /\ \A k \in 1..Len(steps) :
                      /\ last.trace[i + k - 1].ev = steps[k]
                      /\ last.trace[i + k - 1].w = w
                /\ ~gtk_expression_watch_is_watching(watch[w])

\* The application unwatched a watch that has a
\* `this` and a user_destroy.
C12_Witness ==
    /\ Len(last.trace) = 5
    /\ last.trace[1].ev = "subwatch_finish"
    /\ last.unwatched[1].this # NULL
    /\ last.unwatched[1].user_destroy # "NULL"

(***************************************************************************)
(* Properties of binds and of the teardown of a watch, checked under       *)
(* SpecBind.                                                               *)
(***************************************************************************)

\* C13: a watch is torn down exactly once.  Over every sequence of explicit
\* unwatch, destruction of `this` and destruction of the target of a bind:
\* while the watch is watching, nothing of it has been released; once it is
\* unwatched, its user_destroy has run exactly once (if one was given), its
\* expression reference has been released exactly once and its reference to
\* itself has been dropped exactly once; and gtk_expression_watch_unwatch on
\* a handle the application still holds changes nothing.
C13_TeardownOnce ==
    \A w \in Watches :
        watch[w].mem # "unused" =>
            /\ acct[w].expression_ref = 1
            /\ IF gtk_expression_watch_is_watching(watch[w])
               THEN /\ acct[w].expression_unref = 0
                    /\ acct[w].user_destroy = 0
                    /\ acct[w].watch_unref = 0
               ELSE /\ acct[w].expression_unref = 1
                    /\ acct[w].user_destroy = (IF acct[w].given THEN 1 ELSE 0)
                    /\ acct[w].watch_unref = 1
            /\ (watch[w].mem = "live" /\ ~gtk_expression_watch_is_watching(watch[w]))
                  => gtk_expression_watch_unwatch(Begin, w) = Begin

\* The target of a bind was destroyed while the bind was watching and the
\* application held its handle: the teardown came from the bind list of the
\* target, not from `this`, and the handle is still there to be unwatched.
C13_Witness ==
    \E w \in Watches :
        /\ watch[w].mem = "live"
        /\ ~gtk_expression_watch_is_watching(watch[w])
        /\ acct[w].given
        /\ bind[w].mem = "freed"
        /\ ~alive[NumFoo]
        /\ \E i \in 1..Len(last.trace) :
              last.trace[i].ev = "subwatch_finish" /\ last.trace[i].w = w
        /\ \A i \in 1..Len(last.trace) : last.trace[i].ev # "this_cb"

\* C18: gtk_expression_bind fails and returns no handle when the class of
\* the target has no property of the given name, or the property is not
\* writable, or it is construct-only; the failed call creates no watch, adds
\* no bind record to the list of the target, registers no weak reference on
\* the target, connects nothing and does not write the property.
C18_BindRefused ==
    [][(/\ last'.call.op = "bind"
        /\ \/ last'.call.property \notin ClassProps(TypeOf(last'.call.target))
           \/ "G_PARAM_WRITABLE" \notin ParamFlags(last'.call.property)
           \/ "G_PARAM_CONSTRUCT_ONLY" \in ParamFlags(last'.call.property))
       => /\ last'.ret = NULL
          /\ watch' = watch
          /\ bind' = bind
          /\ binds' = binds
          /\ weak_refs' = weak_refs
          /\ handlers' = handlers
          /\ watches' = watches
          /\ props' = props
          /\ last'.bwrites = <<>>
          /\ last'.trace = <<>>
      ]_vars

\* A bind to the construct-only property of an object that already has a
\* bind was refused.
C18_Witness ==
    /\ last.call.op = "bind"
    /\ last.call.property = "id"
    /\ last.call.target = NumFoo
    /\ last.ret = NULL
    /\ binds[NumFoo] # <<>>
    /\ \E w \in Watches : gtk_expression_watch_is_watching(watch[w])

\* C19: gtk_expression_bind checks the type of the target property against
\* the value type of the expression.  A bind of an expression to a writable
\* property whose type differs from the value type of the expression returns
\* no handle, installs no watch and attempts no write.
C19_BindTypeChecked ==
    (/\ last.call.op = "bind"
     /\ last.call.property \in ClassProps(TypeOf(last.call.target))
     /\ "G_PARAM_WRITABLE" \in ParamFlags(last.call.property)
     /\ "G_PARAM_CONSTRUCT_ONLY" \notin ParamFlags(last.call.property)
     /\ last.call.value_type # PropType(last.call.property))
    => /\ last.ret = NULL
       /\ last.bwrites = <<>>
       /\ last.alloc = -1

\* C20: gtk_expression_bind consumes exactly one reference of the expression
\* passed in on every path: when it succeeds, and when it fails because the
\* property is unknown, not writable or construct-only.
C20_BindConsumesReference ==
    last.call.op = "bind" => last.unrefs = 1

\* C21: a successful gtk_expression_bind evaluates the expression exactly
\* once before it returns.  If that evaluation succeeded, the target property
\* has the evaluated value when the bind returns; if it failed, the
\* properties of the target are as before; in both cases the handle is
\* returned and its watch is watching.
C21_BindEvaluatesOnce ==
    (last.call.op = "bind" /\ last.ret # NULL) =>
        LET mine == SelectSeq(last.bnotes, LAMBDA n : n.bind = last.ret)
        IN  /\ Len(mine) = 1
            /\ gtk_expression_watch_is_watching(watch[last.ret])
            /\ IF mine[1].ok
               THEN props[last.call.target][last.call.property] = mine[1].value
               ELSE mine[1].after = mine[1].before

\* C22: every write of a bind to its target is the value of a successful
\* evaluation of the bound expression made in the same notification, and a
\* notification whose evaluation fails leaves every property of the target as
\* it was.  For each action: the writes of the binds are, one for one, the
\* successful evaluations of gtk_expression_bind_notify with their values,
\* and around a failed evaluation the properties of the target are unchanged.
C22_WritesAreEvaluations ==
    /\ \A i \in 1..Len(last.bwrites) :
          LET wr == last.bwrites[i]
              Same(x) == /\ x.bind = wr.bind /\ x.target = wr.target
                         /\ x.pspec = wr.pspec /\ x.value = wr.value
          IN  Cardinality({j \in 1..Len(last.bnotes) :
                              last.bnotes[j].ok /\ Same(last.bnotes[j])})
                = Cardinality({k \in 1..Len(last.bwrites) : Same(last.bwrites[k])})
    /\ Len(SelectSeq(last.bnotes, LAMBDA n : n.ok)) = Len(last.bwrites)
    /\ \A j \in 1..Len(last.bnotes) :
          ~last.bnotes[j].ok => last.bnotes[j].after = last.bnotes[j].before

\* The object that the expression of a bind reads was destroyed: the bind was
\* notified, its evaluation failed, and the target keeps the value that the
\* bind had written before.
C22_Witness ==
    /\ ~alive[1]
    /\ \E j \in 1..Len(last.bnotes) :
          /\ ~last.bnotes[j].ok
          /\ last.bnotes[j].target = NumFoo
          /\ last.bnotes[j].pspec = "width"
    /\ last.bwrites = <<>>
    /\ props[NumFoo]["width"] = IntValue(MaxVal)

\* C23: while a bind is active (its watch is watching, its target and its
\* `this` are alive) and nothing else writes the target property (no other
\* bind is or was on it, and it is not the property that the application sets), the
\* target property equals what the bound expression evaluates to for `this`,
\* whenever that evaluation succeeds.
C23_TargetFollowsExpression ==
    \A b \in Watches :
        (/\ bind[b].mem = "live"
         /\ bind[b].target # NULL
         /\ bind[b].target # 1
         /\ alive[bind[b].target]
         /\ gtk_expression_watch_is_watching(watch[bind[b].watch])
         /\ watch[bind[b].watch].this # NULL => alive[watch[bind[b].watch].this]
         /\ \A c \in Watches \ {b} :
               \/ bind[c].mem = "unused"
               \/ /\ bind[c].mem = "live"
                  /\ <<bind[c].target, bind[c].pspec>>
                       # <<bind[b].target, bind[b].pspec>>)
        => LET r == gtk_expression_evaluate(Now, watch[bind[b].watch].expression,
                                            watch[bind[b].watch].this)
           IN  r.ok => props[bind[b].target][bind[b].pspec] = r.value

\* C24: once the destruction of a target has begun, no bind writes a
\* property of it: every write of a bind, in every action, is to a target
\* whose disposal has not started.
C24_NoWriteToDyingTarget ==
    \A i \in 1..Len(last.bwrites) : last.bwrites[i].alive

\* C25: for every interleaving of an explicit unwatch, the destruction of
\* `this` and the destruction of the target, the watch of a bind is torn down
\* exactly once and the bind record is freed exactly once and never read or
\* written after it was freed.  The record lives exactly as long as its watch
\* watches; no action frees a record twice or touches a freed one, tears a
\* watch down twice, or fails the assertion of free_binds.
C25_BindFreedOnce ==
    /\ \A b \in Watches :
          /\ bind[b].mem = "live" <=> gtk_expression_watch_is_watching(watch[b])
          /\ bind[b].mem = "freed" => acct[b].user_destroy = 1 /\ acct[b].watch_unref = 1
          /\ Len(SelectSeq(last.bfrees, LAMBDA f : f.bind = b)) <= 1
          /\ Len(SelectSeq(last.unwatched, LAMBDA u : u.w = b))
                = Len(SelectSeq(last.bfrees, LAMBDA f : f.bind = b))
    /\ last.buaf = {}
    /\ "free_binds" \notin last.asserts

\* A bind whose `this` is its target was unwatched between invalidate_binds
\* and free_binds: free_binds found the watch pointer cleared and freed the
\* record.
C25_Witness ==
    \E i \in 1..Len(last.bfrees) :
        /\ last.bfrees[i].by = "free_binds"
        /\ last.bfrees[i].watch = NULL
        /\ bind[last.bfrees[i].bind].mem = "freed"
        /\ \E j \in 1..Len(last.trace) :
              /\ last.trace[j].ev = "this_cb"
              /\ last.trace[j].w = last.bfrees[i].bind

\* C26: from the moment the destruction of the `this` of a bind begins, the
\* bind never writes its target again, whatever its expression: in no action
\* is the this-destroyed callback of a bind followed by a write of that bind.
C26_NoWriteAfterThisDestroyed ==
    \A i, j \in 1..Len(last.trace) :
        ~(/\ i < j
          /\ last.trace[i].ev = "this_cb"
          /\ last.trace[j].ev = "write"
          /\ last.trace[j].w = last.trace[i].w)

\* C27: a watch is created with exactly one reference, owned by its watching
\* state and released when and only when it is unwatched.  With the
\* application releasing only references it took with
\* gtk_expression_watch_ref, the references of a live watch are the one of
\* the watching state plus those the application holds, a watch is never
\* finalized while it is watching (the assertion of
\* gtk_expression_watch_finalize holds) or while the application holds a
\* reference, so that a handle kept with a reference outlives the unwatch.
C27_WatchReferences ==
    /\ \A w \in Watches :
          /\ watch[w].mem = "live" =>
                watch[w].ref_count
                  = (IF gtk_expression_watch_is_watching(watch[w]) THEN 1 ELSE 0)
                      + acct[w].held
          /\ acct[w].held > 0 => watch[w].mem = "live"
          /\ gtk_expression_watch_is_watching(watch[w]) => acct[w].watch_unref = 0
          /\ (watch[w].mem # "unused" /\ ~gtk_expression_watch_is_watching(watch[w]))
                => acct[w].watch_unref = 1
          /\ (last.ret = w /\ last.alloc >= 0 /\ last.unwatched = <<>>)
                => watch[w].ref_count = 1
    /\ "gtk_expression_watch_finalize" \notin last.asserts

\* A watch that the application holds a reference to was unwatched in the
\* last action: it is not watching, and the handle is live with the
\* application's reference as its only one.
C27_Witness ==
    \E w \in Watches :
        /\ \E i \in 1..Len(last.unwatched) : last.unwatched[i].w = w
        /\ acct[w].held = 1
        /\ watch[w].mem = "live"
        /\ watch[w].ref_count = 1
        /\ ~gtk_expression_watch_is_watching(watch[w])

\* C28: the evaluation of a property expression with a child fails, with the
\* output left empty, when the child fails, when the child's value is not an
\* object, is the null object, or is an object that does not conform to the
\* type that declares the property; otherwise it succeeds with the current
\* value of the property of that object.  Either way it keeps no reference to
\* the source object.  (Checked under SpecEval.)
C28_PropertyOfChild ==
    (/\ lastEval.fresh
     /\ lastEval.expr.kind = "property"
     /\ lastEval.expr.expr.kind # "none") =>
        LET c == gtk_expression_evaluate(Now, lastEval.expr.expr, lastEval.this)
        IN  /\ IF \/ ~c.ok
                  \/ c.value.type # "object"
                  \/ c.value.v = NULL
                  \/ TypeOf(c.value.v) # OwnerType(lastEval.expr.pspec)
               THEN ~lastEval.ok /\ lastEval.value = Empty
               ELSE /\ lastEval.ok
                    /\ lastEval.value = props[c.value.v][lastEval.expr.pspec]
            /\ lastEval.refs = 0

\* The child evaluated to the Bar object, which has no "width": the
\* evaluation failed.
C28_Witness ==
    /\ lastEval.fresh
    /\ lastEval.expr = gtk_property_expression_new(
                           gtk_object_expression_new(BarObject), "width")
    /\ alive[BarObject]
    /\ ~lastEval.ok
    /\ lastEval.value = Empty

\* C29: watching an object expression appends an entry at the end of the
\* list of the expression, and on the destruction of the object the notifies
\* are invoked in list order, which is registration order.  Watches are
\* allocated in ascending order and the sub-watches of one watch are
\* registered by ascending offset, so that every list is in ascending order
\* of (watch, offset) and so are the calls for one expression in an action.
\* (Checked under Spec.)
C29_RegistrationOrder ==
    LET Before(a, b) == \/ a.watch < b.watch
                        \/ a.watch = b.watch /\ a.off < b.off
    IN  /\ \A n \in ObjNodes : \A i, j \in 1..Len(watches[n]) :
              i < j => Before(watches[n][i], watches[n][j])
        /\ \A i, j \in 1..Len(last.ocalls) :
              (i < j /\ last.ocalls[i].node = last.ocalls[j].node)
                 => Before(last.ocalls[i].entry, last.ocalls[j].entry)

\* C30: an object expression never keeps its object alive.  Creating,
\* watching, unwatching and finalizing it leave what holds the objects
\* unchanged; the object can be destroyed while the expression and its
\* watches exist, after which the expression holds no pointer to it; and an
\* expression finalized while its object is alive takes its destruction
\* callback off the object, so that the callbacks registered on an object are
\* those of the live expressions that point to it, one each, and no callback
\* runs on a freed expression.  (Checked under SpecObj.)
C30_ObjectExpressionIsWeak ==
    /\ \A n \in ObjNodes :
          oexpr[n] = "live" =>
             /\ object[n] # NULL => alive[object[n]]
             /\ \A o \in Objects :
                   Len(SelectSeq(weak_refs[o],
                          LAMBDA r : r = [notify |-> "gtk_object_expression_weak_ref_cb",
                                          data |-> n]))
                     = (IF object[n] = o THEN 1 ELSE 0)
    /\ \A o \in Objects : \A i \in 1..Len(weak_refs[o]) :
          weak_refs[o][i].notify = "gtk_object_expression_weak_ref_cb"
             => oexpr[weak_refs[o][i].data] = "live"
    /\ last.euaf = {}
    /\ "gtk_object_expression_finalize" \notin last.asserts
    /\ last.call.op \in {"object_expression_new", "expression_unref",
                          "watch", "unwatch"}
          => \A o \in Objects : Held(o) = last.call.held[o]

\* Object expression 1 was finalized while object 1 was alive, and object 1
\* was destroyed later; object 2 has just been destroyed while its
\* expression was watched: the watch was notified and is still there.
C30_Witness ==
    /\ oexpr[1] = "freed" /\ object[1] = 1 /\ ~alive[1]
    /\ oexpr[2] = "live" /\ object[2] = NULL /\ ~alive[2]
    /\ watches[2] # <<>>
    /\ \E i \in 1..Len(last.ocalls) : last.ocalls[i].node = 2

\* C31: when the relay of a property sub-watch fires, the old handler is
\* removed and a new one is connected to the object the child resolves to
\* (none if there is none, or if it fails the type check) before the
\* notification is passed on.  At the moment of each forward, and in every
\* state, a property sub-watch with a watched child has at most one handler,
\* it is on the object its expression resolves to, and the sub-watch's
\* closure says so.  (Checked under Spec.)
C31_RelayRebuilds ==
    /\ \A i \in 1..Len(last.relays) :
          LET r == last.relays[i]
          IN  /\ r.closure = r.source
              /\ r.count = (IF r.source = NULL THEN 0 ELSE 1)
              /\ r.listeners = (IF r.source = NULL THEN {} ELSE {r.source})
    /\ \A w \in Watches : \A off \in DOMAIN watch[w].sub :
          (/\ watch[w].sub[off].kind = "pwatch"
           /\ watch[w].sub[off].expr.expr.kind # "none"
           /\ ~gtk_expression_is_static(watch[w].sub[off].expr.expr))
          => LET source == gtk_property_expression_get_object(Now,
                               watch[w].sub[off].expr, watch[w].sub[off].this)
                 ls     == Listeners(Now, Ptr(w, off))
             IN  /\ watch[w].sub[off].closure = source
                 /\ Cardinality(ls) = (IF source = NULL THEN 0 ELSE 1)
                 /\ \A l \in ls : l[1] = source

\* A sub-watch whose source could not be resolved when it was rebuilt
\* before has its handler after this relay, on the object that the child
\* resolves to now.
C31_Witness ==
    \E i \in 1..Len(last.relays) :
        /\ last.relays[i].old = NULL
        /\ last.relays[i].source # NULL
        /\ last.relays[i].listeners = {last.relays[i].source}
        /\ handlers[last.relays[i].source] # <<>>

\* C32: the layout of the sub-watch slots is consistent.  The slots that
\* gtk_expression_watch initialises are pairwise disjoint and lie inside the
\* gtk_expression_watch_size (root) bytes allocated after the watch header,
\* and gtk_expression_watch_unwatch visits the same expression nodes at the
\* same offsets in the same order.  (Checked under Spec.)
C32_SlotLayout ==
    LET Own(v) == v.off + SlotSize(CASE v.expr.kind = "object" -> "owatch"
                                     [] v.expr.kind = "property" -> "pwatch"
                                     [] v.expr.kind = "closure" -> "cwatch")
        At(v)  == <<v.w, v.off, v.expr>>
    IN  /\ \A w \in Watches :
              LET sl == acct[w].slots
              IN  /\ \A i \in 1..Len(sl) :
                        /\ sl[i].off >= SizeofExpressionWatch
                        /\ Own(sl[i])
                             <= SizeofExpressionWatch
                                  + gtk_expression_watch_size(watch[w].expression)
                  /\ \A i, j \in 1..Len(sl) :
                        i < j => (Own(sl[i]) <= sl[j].off \/ Own(sl[j]) <= sl[i].off)
                  /\ gtk_expression_watch_is_watching(watch[w])
                        => DOMAIN watch[w].sub = {sl[i].off : i \in 1..Len(sl)}
        /\ \A k \in 1..Len(last.unwatched) :
              LET u  == last.unwatched[k]
                  un == SelectSeq(last.visits,
                                  LAMBDA v : v.op = "unwatch" /\ v.w = u.w)
              IN  /\ Len(un) = Len(u.slots)
                  /\ \A i \in 1..Len(un) : At(un[i]) = At(u.slots[i])

\* A watch of a closure expression with two watched parameters, the second
\* a property expression with a watched child, was unwatched: four slots.
C32_Witness ==
    \E k \in 1..Len(last.unwatched) :
        /\ last.unwatched[k].expression.kind = "closure"
        /\ Len(last.unwatched[k].slots) = 4
        /\ Len(SelectSeq(last.visits, LAMBDA v : v.op = "unwatch")) = 4

\* C33: a notify callback that, called for the destruction of `this`,
\* unwatches its own watch is tolerated: the watch is torn down once and is
\* not read after its last reference was released, whether or not the
\* application holds a reference to the handle.  (Checked under SpecReenter.)
C33_UnwatchInThisNotify ==
    \A w \in Watches :
        (\E i \in 1..Len(last.trace) :
            last.trace[i].ev = "this_cb" /\ last.trace[i].w = w)
        => /\ w \notin last.wuaf
           /\ Len(SelectSeq(last.unwatched, LAMBDA u : u.w = w)) = 1

\* C34: a notify callback that, called while an object expression delivers
\* the destruction of its object, unwatches its own watch or another watch
\* of the same object expression is tolerated: no list entry is read after
\* it was removed and no watch after it was freed, no entry that was
\* unwatched before its turn is notified, and every entry that is still
\* registered at its turn is notified once.  A freed watch that is read by
\* the this-destroyed callback is the subject of C33 and not counted here.
\* (Checked under SpecReenter.)
C34_UnwatchInObjectNotify ==
    /\ last.luaf = {}
    /\ \A w \in last.wuaf :
          \E i \in 1..Len(last.trace) :
              last.trace[i].ev = "this_cb" /\ last.trace[i].w = w
    /\ \A n \in ObjNodes : \A j \in 1..Len(last.olist[n]) :
          Cardinality({i \in 1..Len(last.ocalls) :
                          /\ last.ocalls[i].node = n
                          /\ last.ocalls[i].entry = last.olist[n][j]}) <= 1

\* C35: in every state between two operations, the bind list of a live
\* object holds exactly the binds on that object whose watch is still
\* watching, each once, and the object has one invalidate_binds weak
\* reference when the list is not empty and none when it is empty: over
\* every sequence of binds, unwatches and destructions of `this`, also when
\* the list became empty and a bind was added afterwards.  (Checked under
\* SpecBind.)
C35_BindListOfTarget ==
    \A t \in Objects :
        alive[t] =>
            /\ {binds[t][i] : i \in 1..Len(binds[t])}
                 = {b \in Watches :
                       /\ bind[b].mem = "live"
                       /\ bind[b].target = t
                       /\ bind[b].watch # NULL
                       /\ gtk_expression_watch_is_watching(watch[bind[b].watch])}
            /\ \A i, j \in 1..Len(binds[t]) : binds[t][i] = binds[t][j] => i = j
            /\ Cardinality({i \in 1..Len(weak_refs[t]) :
                               weak_refs[t][i].notify = "invalidate_binds"})
                 = IF binds[t] = <<>> THEN 0 ELSE 1

\* A bind was added to an object whose list had become empty when an earlier
\* bind on it was unwatched or lost its `this`: the first bind is freed, the
\* list holds the second and the guard is registered once again.
C35_Witness ==
    \E t \in Objects :
        /\ alive[t]
        /\ last.call.op = "bind"
        /\ last.ret = 2
        /\ binds[t] = <<2>>
        /\ bind[1].mem = "freed"
        /\ props[t]["width"] = IntValue(1)
        /\ bind[2].pspec # "width"
        /\ Cardinality({i \in 1..Len(weak_refs[t]) :
                           weak_refs[t][i].notify = "invalidate_binds"}) = 1


\* C36: no object expression is finalized while a watch that is watching
\* has a sub-watch registered on it.  A watching watch holds a reference on
\* its expression, so the references of an object expression are that of
\* the application and one for each watching watch whose expression contains
\* it; its list holds only entries of watching watches; and when the last
\* reference goes, in gtk_expression_unref of the application or at the end
\* of an unwatch, the list is empty: the assertion of
\* gtk_object_expression_finalize holds whatever the order of the unwatches,
\* of the unref of the application and of the destruction of the objects.
\* (Checked under SpecObj.)
C36_NoFinalizeWhileWatched ==
    /\ "gtk_object_expression_finalize" \notin last.asserts
    /\ \A n \in ObjNodes :
          LET holders == {w \in Watches :
                             /\ gtk_expression_watch_is_watching(watch[w])
                             /\ n \in ExprNodes(watch[w].expression)}
          IN  /\ holders # {} => oexpr[n] = "live"
              /\ oexpr[n] = "live" =>
                    erefs[n].count = Cardinality(holders)
                                       + (IF erefs[n].app THEN 1 ELSE 0)
              /\ oexpr[n] = "freed" => erefs[n].count = 0 /\ watches[n] = <<>>
              /\ \A i \in 1..Len(watches[n]) : watches[n][i].watch \in holders

\* The application dropped its reference to object expression 1 while a
\* property expression over it was watched, object 1 was destroyed, and the
\* unwatch that has just run released the last reference: the expression was
\* finalized after its sub-watch had been taken off the list.
C36_Witness ==
    /\ last.call.op = "unwatch"
    /\ oexpr[1] = "freed"
    /\ ~alive[1]
    /\ ~erefs[1].app
    /\ \E k \in 1..Len(last.unwatched) :
          /\ last.unwatched[k].expression.kind = "property"
          /\ 1 \in ExprNodes(last.unwatched[k].expression)
    /\ \E v \in 1..Len(last.visits) : last.visits[v].op = "unwatch"
                                        /\ last.visits[v].expr.kind = "object"

\* C37: every evaluation that the watch machinery starts (a property
\* sub-watch resolving the object to listen to, with the `this` it was given
\* when the watch was made, and the notify of a bind evaluating through its
\* watch) passes a `this` that is absent or an object whose destruction has
\* not begun, also when the expression contains an object expression of the
\* object that is `this`.  (Checked under SpecBind.)
C37_EngineThisIsLive ==
    \A e \in last.evals : e.live

\* C38: the processing of a notification ends.  Every call (a bind, a
\* property set, an unwatch, a destruction) returns after finitely many writes
\* of binds, also when the expression of a bind reads the property that the
\* bind writes, every property set emitting "notify" for the property: no
\* gtk_expression_bind_notify is entered again in the state in which an
\* unfinished call of it for the same bind was entered.  (Checked under
\* SpecFeedback.)
C38_NotificationsEnd ==
    last.hung = {}

(***************************************************************************)
(* Properties of evaluation through a watch, of the inert unwatched watch, *)
(* of the watch size and of the round trip, checked under SpecLife.        *)
(***************************************************************************)

\* C14: while a watch is watching, gtk_expression_watch_evaluate gives the
\* same success or failure and the same value as gtk_expression_evaluate with
\* the watched expression and the `this` that was passed to
\* gtk_expression_watch: in every state between two actions, and at every
\* call of the notify callback of a watching watch.
C14_WatchEvaluateIsEvaluate ==
    /\ \A w \in Watches :
          gtk_expression_watch_is_watching(watch[w]) =>
              gtk_expression_watch_evaluate(Now, w)
                = gtk_expression_evaluate(Now, watch[w].expression, acct[w].this)
    /\ last.wdiff = {}

\* C15: an unwatched watch is inert.  Once a watch has been unwatched, by
\* gtk_expression_watch_unwatch or by the destruction of its `this`, no later
\* step makes it watching again or invokes its notify, whatever property is
\* set and whatever object is destroyed, and as long as the application holds
\* the handle gtk_expression_watch_evaluate on it fails with the output empty.
C15_UnwatchedIsInert ==
    [][\A w \in Watches :
          (watch[w].mem # "unused" /\ ~gtk_expression_watch_is_watching(watch[w])) =>
              /\ ~gtk_expression_watch_is_watching(watch'[w])
              /\ fired'[w] = 0
              /\ \A i \in 1..Len(last'.trace) :
                    last'.trace[i].w = w => last'.trace[i].ev # "notify"
              /\ watch[w].mem = "live" =>
                    gtk_expression_watch_evaluate(Now, w) = [ok |-> FALSE, value |-> Empty]
              /\ watch'[w].mem = "live" =>
                    gtk_expression_watch_evaluate(Now', w) = [ok |-> FALSE, value |-> Empty]
      ]_vars

\* The application holds the handle of an unwatched watch, and the last step
\* notified another watch and did nothing with this one.
C15_Witness ==
    \E w \in Watches :
        /\ watch[w].mem = "live"
        /\ ~gtk_expression_watch_is_watching(watch[w])
        /\ acct[w].expression_unref = 1
        /\ \A i \in 1..Len(last.trace) : last.trace[i].w # w
        /\ \E i \in 1..Len(last.trace) : last.trace[i].ev = "notify"

\* C16: gtk_expression_watch_size of the root is exactly the byte span that
\* watch and unwatch touch.  After every gtk_expression_watch, the size the
\* watch was allocated with for its sub-watches equals the end of the
\* highest byte that the sub-watches of the tree have written; a static
\* child of a property expression adds nothing to either.
C16_WatchSizeIsSpan ==
    last.alloc # -1 => last.alloc = last.touched

====
